---- MODULE Spec2Model ----
(***************************************************************************)
(* A model of the sysctl_conf pipeline: the statement evaluator of         *)
(* node/src/lib.rs and the CharReader / Lexer / Parser of parser/src.      *)
(* Text is a sequence of Unicode scalar values (integers); a byte source   *)
(* is a sequence of integers 0..255.                                       *)
(***************************************************************************)
EXTENDS Integers, Sequences, FiniteSets, TLC

VARIABLES
    statements,  \* evaluate: the Vec<Statement<Value>> argument
    schema,      \* evaluate: the Option<HashMap<Path, SchemaType>> argument
    evaluated,   \* evaluate: <<>> before the call, <<result>> after it
    source,      \* parser: the bytes the BufRead was created over
    parser,      \* parser: the Parser (lexer, reader and ignore flag)
    results,     \* parser: the results of the parse() calls made so far
    lines,       \* parser: the lines the source was written from, when it was
    given,       \* Value::from: the String argument
    converted,   \* Value::from: <<>> before the call, <<value>> after it
    reader,      \* char_reader: the CharReader driven on its own
    calls,       \* char_reader: the calls made on it so far, with their results
    lexer,       \* lexer: the Lexer driven on its own
    tokens,      \* lexer: the results of the next() and peek() calls made so far
    run          \* parser: a parse() call in progress, its position and locals

vars == <<statements, schema, evaluated, source, parser, results, lines, given, converted,
         reader, calls, lexer, tokens, run>>

----------------------------------------------------------------------------
(* Bounds of the model.                                                    *)

MaxFragments == 6
MaxSourceLen == 6
MaxLines == 2
MaxReparseLen == 5
MaxParseCalls == 3
MaxChecked == 2
MaxTextLen == 4
MaxReaderLen == 2
MaxReaderCalls == 7
MaxDecodeLen == 4
MaxLexLen == 3
MaxLexCalls == 6
MaxMarkLen == 4
MaxArrowLen == 5
MaxPeekLen == 3
MaxStepLen == 4
MaxIterations == 16

----------------------------------------------------------------------------
(* node/src/lib.rs: Path, Value, SchemaType.                               *)

\* Option<T>: None is <<>>, Some(x) is <<x>>.
None == <<>>
Some(x) == <<x>>

EmptyMap == [k \in {} |-> k]

\* A HashMap insert that keeps the value of an occupied entry.
MapPutIfVacant(m, k, v) ==
    [x \in (DOMAIN m) \cup {k} |-> IF x \in DOMAIN m THEN m[x] ELSE v]

\* HashMap: the entry of k is set to v, vacant or occupied.
MapPut(m, k, v) == [x \in (DOMAIN m) \cup {k} |-> IF x = k THEN v ELSE m[x]]

\* enum Value: one record shape for the four variants.
\*   String(text)  : text is a sequence of scalar values
\*   Number(num)   : num is a decimal [neg, m, e, inf] standing for
\*                   (-1)^neg * m * 10^e, or for the infinity of that sign
\*   Boolean(b)
\*   Object(map)   : map is a function from fragments to Values
NoNum == [neg |-> FALSE, m |-> 0, e |-> 0, inf |-> FALSE]

ValueString(t) == [kind |-> "String", text |-> t, num |-> NoNum, bool |-> FALSE, map |-> EmptyMap]

ValueNumber(n) == [kind |-> "Number", text |-> <<>>, num |-> n, bool |-> FALSE, map |-> EmptyMap]

ValueBoolean(b) == [kind |-> "Boolean", text |-> <<>>, num |-> NoNum, bool |-> b, map |-> EmptyMap]

ValueObject(m) == [kind |-> "Object", text |-> <<>>, num |-> NoNum, bool |-> FALSE, map |-> m]

\* Statement::new
Statement(path, value) == [path |-> path, value |-> value]

\* The scalar values of the characters the code names.
CharTab == 9
CharLF == 10
CharCR == 13
CharSpace == 32
CharHash == 35
CharMinus == 45
CharDot == 46
CharZero == 48
CharNine == 57
CharSemicolon == 59
CharEqual == 61
CharGreater == 62
CharUpperE == 69
CharLowerE == 101

RECURSIVE JoinDot(_)
JoinDot(frags) ==
    IF frags = <<>> THEN <<>>
    ELSE IF Len(frags) = 1 THEN frags[1]
    ELSE frags[1] \o <<CharDot>> \o JoinDot(Tail(frags))

\* Path::to_string: the fragments joined by "."
PathToString(path) == JoinDot(path)

\* enum SchemaType
SchemaTypes == {"Integer", "Float", "Boolean", "String"}

RECURSIVE Pow10(_)
Pow10(k) == IF k = 0 THEN 1 ELSE 10 * Pow10(k - 1)

RECURSIVE DigitCount(_)
DigitCount(m) == IF m < 10 THEN 1 ELSE 1 + DigitCount(m \div 10)

\* The decimal digits of a natural number, and k zeros.
RECURSIVE DigitsOf(_)
DigitsOf(m) ==
    IF m < 10 THEN <<CharZero + m>> ELSE DigitsOf(m \div 10) \o <<CharZero + (m % 10)>>

Zeros(k) == [i \in 1..k |-> CharZero]

TextInf == <<105, 110, 102>>

\* f64's Display (`{}`): a sign, then "inf" or the digits written without an
\* exponent, with a decimal point only before a fractional part.
NumberToString(n) ==
    LET digits == DigitsOf(n.m)
        d == Len(digits)
    IN (IF n.neg THEN <<CharMinus>> ELSE <<>>)
       \o (IF n.inf THEN TextInf
           ELSE IF n.e >= 0 THEN digits \o Zeros(n.e)
           ELSE IF 0 - n.e < d
           THEN SubSeq(digits, 1, d + n.e) \o <<CharDot>> \o SubSeq(digits, d + n.e + 1, d)
           ELSE <<CharZero, CharDot>> \o Zeros(0 - n.e - d) \o digits)

\* The digits of isize::MAX = 2^63 - 1 and of the magnitude of isize::MIN.
IsizeMaxDigits == <<57, 50, 50, 51, 51, 55, 50, 48, 51, 54, 56, 53, 52, 55, 55, 53, 56, 48, 55>>

IsizeMinDigits == <<57, 50, 50, 51, 51, 55, 50, 48, 51, 54, 56, 53, 52, 55, 55, 53, 56, 48, 56>>

\* a <= b for two digit texts of the same length
DigitsLeq(a, b) ==
    \/ a = b
    \/ \E i \in 1..Len(a) : a[i] < b[i] /\ \A j \in 1..(i - 1) : a[j] = b[j]

RECURSIVE StripZeros(_)
StripZeros(t) == IF t # <<>> /\ Head(t) = CharZero THEN StripZeros(Tail(t)) ELSE t

\* str::parse::<isize> is Ok: an optional sign, one or more digits and no
\* other character, the value within the 64-bit range.
ParseIsizeOk(t) ==
    LET neg == t # <<>> /\ t[1] = CharMinus
        body == IF t # <<>> /\ t[1] \in {CharMinus, 43} THEN Tail(t) ELSE t
        sig == StripZeros(body)
    IN /\ body # <<>>
       /\ \A i \in 1..Len(body) : body[i] >= CharZero /\ body[i] <= CharNine
       /\ \/ Len(sig) < 19
          \/ Len(sig) = 19 /\ DigitsLeq(sig, IF neg THEN IsizeMinDigits ELSE IsizeMaxDigits)

\* A check that takes every number without a fractional part for an integer.
IsizeParsesWhole(n) == ~n.inf /\ n.e >= 0

\* `v.to_string().parse::<isize>()` is Ok
IsizeParses(n) == ParseIsizeOk(NumberToString(n))

\* A check that lets a Number pass for a String as well.
CheckNumberAsString(value, schema_type) ==
    \/ value.kind = "Boolean" /\ schema_type = "Boolean"
    \/ value.kind \in {"String", "Number"} /\ schema_type = "String"
    \/ value.kind = "Number" /\ schema_type = "Float"
    \/ value.kind = "Number" /\ schema_type = "Integer" /\ IsizeParses(value.num)

\* Value::check: TRUE for Ok(()), FALSE for Err(message)
Check(value, schema_type) ==
    \/ value.kind = "Boolean" /\ schema_type = "Boolean"
    \/ value.kind = "String" /\ schema_type = "String"
    \/ value.kind = "Number" /\ schema_type = "Float"
    \/ value.kind = "Number" /\ schema_type = "Integer" /\ IsizeParses(value.num)

TextTrue == <<116, 114, 117, 101>>

TextFalse == <<102, 97, 108, 115, 101>>

TextInteger == <<105, 110, 116, 101, 103, 101, 114>>

TextBool == <<98, 111, 111, 108>>

TextFloat == <<102, 108, 111, 97, 116>>

TextString == <<115, 116, 114, 105, 110, 103>>

\* SchemaType::format
SchemaTypeFormat(schema_type) ==
    IF schema_type = "Integer" THEN TextInteger
    ELSE IF schema_type = "Float" THEN TextFloat
    ELSE IF schema_type = "Boolean" THEN TextBool
    ELSE TextString

CharQuote == 34

\* Value::format of a String, a Number, a Boolean and the empty Object (the
\* entries of an Object are rendered in the iteration order of its HashMap;
\* the Objects formatted here have none).
ValueFormat(value) ==
    IF value.kind = "String" THEN <<CharQuote>> \o value.text \o <<CharQuote>>
    ELSE IF value.kind = "Number" THEN NumberToString(value.num)
    ELSE IF value.kind = "Boolean" THEN (IF value.bool THEN TextTrue ELSE TextFalse)
    ELSE <<123, CharLF>> \o <<CharLF>> \o <<125>>

\* The message of the Err of Value::check: the arguments of its format!, in
\* order (the fixed text between them is left out).
CheckMessage(value, schema_type) ==
    <<SchemaTypeFormat(schema_type), ValueFormat(value), SchemaTypeFormat(schema_type)>>

\* Result<Value, Error> of evaluate, with the panic of unreachable!() as a
\* third outcome; msg holds the arguments of the MismatchedType message.
EvalOk(tree) == [kind |-> "Ok", tree |-> tree, key |-> <<>>, msg |-> <<>>]

EvalErr(kind, key) ==
    [kind |-> kind, tree |-> ValueObject(EmptyMap), key |-> key, msg |-> <<>>]

\* Error::MismatchedType(format!("`{}` は {}", key, s))
EvalMismatch(key, s) ==
    [kind |-> "MismatchedType", tree |-> ValueObject(EmptyMap), key |-> key,
     msg |-> <<key>> \o s]

\* The `while let Some(fragment) = path.pop()` loop of evaluate, from the
\* cursor object down; key is the statement's dotted key.
RECURSIVE InsertAt(_, _, _, _)
InsertAt(cursor_object, path, value, key) ==
    IF path = <<>> THEN EvalOk(cursor_object)
    ELSE
      LET fragment == Head(path)
          rest == Tail(path)
      IN IF rest = <<>>
         THEN IF cursor_object.kind = "Object"
              THEN EvalOk(ValueObject(MapPut(cursor_object.map, fragment, value)))
              ELSE EvalErr("ObjectOverride", key)
         ELSE IF cursor_object.kind = "Object"
              THEN LET child == IF fragment \in DOMAIN cursor_object.map
                                THEN cursor_object.map[fragment]
                                ELSE ValueObject(EmptyMap)
                       r == InsertAt(child, rest, value, key)
                   IN IF r.kind = "Ok"
                      THEN EvalOk(ValueObject(MapPut(cursor_object.map, fragment, r.tree)))
                      ELSE r
              ELSE EvalErr("Panic", key)

\* A lookup that takes no statement's Value for mismatched.
SchemaAcceptsAny(stmt, sch) == TRUE

\* A lookup by the first fragment of the Path alone.
SchemaGetByHead(sch, path) ==
    IF sch # None /\ \E k \in DOMAIN sch[1] : k[1] = path[1]
    THEN Some(sch[1][CHOOSE k \in DOMAIN sch[1] : k[1] = path[1]])
    ELSE None

\* schema.as_ref() and schema.get(&path): the Option<&SchemaType> of a Path.
SchemaGet(sch, path) ==
    IF sch # None /\ path \in DOMAIN sch[1] THEN Some(sch[1][path]) ELSE None

\* The schema lookup and check of one statement: TRUE when evaluate goes on.
SchemaAccepts(stmt, sch) ==
    SchemaGet(sch, stmt.path) # None => Check(stmt.value, SchemaGet(sch, stmt.path)[1])

\* The `for Statement(path, value) in statements` loop of evaluate.
RECURSIVE EvaluateFrom(_, _, _)
EvaluateFrom(result, stmts, sch) ==
    IF stmts = <<>> THEN EvalOk(result)
    ELSE
      LET stmt == Head(stmts)
          key == PathToString(stmt.path)
      IN IF ~SchemaAccepts(stmt, sch)
         THEN EvalMismatch(key, CheckMessage(stmt.value, SchemaGet(sch, stmt.path)[1]))
         ELSE LET r == InsertAt(result, stmt.path, stmt.value, key)
              IN IF r.kind = "Ok"
                 THEN EvaluateFrom(r.tree, Tail(stmts), sch)
                 ELSE r

\* Statement::evaluate
Evaluate(stmts, sch) == EvaluateFrom(ValueObject(EmptyMap), stmts, sch)

----------------------------------------------------------------------------
(* The evaluator driven on bounded statement sequences.                    *)

SeqsUpTo(S, n) == UNION {[1..k -> S] : k \in 0..n}

EvalFragments == {<<97>>, <<98>>}

EvalValues ==
    {ValueNumber([neg |-> FALSE, m |-> 1, e |-> 0, inf |-> FALSE]), ValueString(<<120>>)}

\* The statements whose Path has at most n fragments.
EvalStatements(n) ==
    {Statement(p, v) : p \in SeqsUpTo(EvalFragments, n) \ {<<>>}, v \in EvalValues}

RECURSIVE FragmentCount(_)
FragmentCount(stmts) ==
    IF stmts = <<>> THEN 0 ELSE Len(Head(stmts).path) + FragmentCount(Tail(stmts))

\* A Parser that was never created (the evaluator runs without one).
NoParser == <<>>

NoReader == <<>>

NoLexer == <<>>

NoRun == <<>>

InitEval ==
    /\ statements = <<>>
    /\ schema = None
    /\ evaluated = None
    /\ source = <<>>
    /\ parser = NoParser
    /\ results = <<>>
    /\ lines = <<>>
    /\ given = <<>>
    /\ converted = None
    /\ reader = NoReader
    /\ calls = <<>>
    /\ lexer = NoLexer
    /\ tokens = <<>>
    /\ run = NoRun

\* The caller builds the Vec<Statement> it will hand to evaluate.
PushStatement ==
    /\ evaluated = None
    /\ \E s \in EvalStatements(MaxFragments - FragmentCount(statements)) :
          statements' = Append(statements, s)
    /\ UNCHANGED <<schema, evaluated, source, parser, results, lines, given, converted, reader, calls, lexer, tokens, run>>

EvaluateCall ==
    /\ evaluated = None
    /\ evaluated' = Some(Evaluate(statements, schema))
    /\ UNCHANGED <<statements, schema, source, parser, results, lines, given, converted, reader, calls, lexer, tokens, run>>

NextEval == PushStatement \/ EvaluateCall

SpecEval == InitEval /\ [][NextEval]_vars

\* evaluate driven with a schema: the Paths and Values of the statements, the
\* keys of the schema.
CheckedPaths == {<<<<97>>>>, <<<<98>>>>, <<<<97>>, <<98>>>>}

CheckedValues ==
    {ValueString(<<120>>),
     ValueNumber([neg |-> FALSE, m |-> 1, e |-> 0, inf |-> FALSE]),
     ValueNumber([neg |-> FALSE, m |-> 15, e |-> -1, inf |-> FALSE]),
     ValueNumber([neg |-> FALSE, m |-> 9, e |-> 18, inf |-> FALSE]),
     ValueNumber([neg |-> FALSE, m |-> 1, e |-> 19, inf |-> FALSE]),
     ValueBoolean(TRUE),
     ValueObject(EmptyMap)}

CheckedStatements == {Statement(p, v) : p \in CheckedPaths, v \in CheckedValues}

SchemaKeys == {<<<<97>>>>, <<<<97>>, <<98>>>>}

\* Some(HashMap<Path, SchemaType>) over the schema keys
Schemas == UNION {{Some(m) : m \in [D -> SchemaTypes]} : D \in SUBSET SchemaKeys}

InitChecked ==
    /\ statements = <<>>
    /\ schema \in Schemas
    /\ evaluated = None
    /\ source = <<>>
    /\ parser = NoParser
    /\ results = <<>>
    /\ lines = <<>>
    /\ given = <<>>
    /\ converted = None
    /\ reader = NoReader
    /\ calls = <<>>
    /\ lexer = NoLexer
    /\ tokens = <<>>
    /\ run = NoRun

\* The caller builds the Vec<Statement> it will hand to evaluate with the schema.
PushChecked ==
    /\ evaluated = None
    /\ Len(statements) < MaxChecked
    /\ \E s \in CheckedStatements : statements' = Append(statements, s)
    /\ UNCHANGED <<schema, evaluated, source, parser, results, lines, given, converted, reader, calls, lexer, tokens, run>>

NextChecked == PushChecked \/ EvaluateCall

SpecChecked == InitChecked /\ [][NextChecked]_vars

----------------------------------------------------------------------------
(* Properties of the evaluator.                                            *)

IsProperPrefix(p, q) == Len(p) < Len(q) /\ SubSeq(q, 1, Len(p)) = p

\* No statement's Path is a proper prefix of another statement's Path.
PrefixFree(stmts) ==
    \A i, j \in 1..Len(stmts) : ~IsProperPrefix(stmts[i].path, stmts[j].path)

\* The Value reached by walking path through nested Objects, if any.
RECURSIVE Walk(_, _)
Walk(value, path) ==
    IF path = <<>> THEN Some(value)
    ELSE IF value.kind = "Object" /\ Head(path) \in DOMAIN value.map
         THEN Walk(value.map[Head(path)], Tail(path))
         ELSE None

\* The paths of the leaves (non-Object values) of a tree.
RECURSIVE LeafPaths(_)
LeafPaths(value) ==
    IF value.kind # "Object" THEN {<<>>}
    ELSE UNION {{<<k>> \o p : p \in LeafPaths(value.map[k])} : k \in DOMAIN value.map}

\* The index of the last statement whose Path is p.
LastWith(stmts, p) ==
    CHOOSE i \in 1..Len(stmts) :
        /\ stmts[i].path = p
        /\ \A j \in (i + 1)..Len(stmts) : stmts[j].path # p

\* C1: for a prefix-free statement sequence evaluate returns Ok with a tree in
\* which every statement's Path reaches the Value of the last statement with
\* that Path, and whose leaves are exactly the statements' Paths.
C1_PrefixFreeTree ==
    (evaluated # None /\ PrefixFree(statements)) =>
        /\ evaluated[1].kind = "Ok"
        /\ \A i \in 1..Len(statements) :
              Walk(evaluated[1].tree, statements[i].path)
                  = Some(statements[LastWith(statements, statements[i].path)].value)
        /\ LeafPaths(evaluated[1].tree) = {statements[i].path : i \in 1..Len(statements)}

\* C1 witness: a prefix-free sequence was evaluated in which two siblings share
\* a namespace and an exact duplicate Path is assigned two different Values.
C1_Witness ==
    /\ evaluated # None
    /\ PrefixFree(statements)
    /\ \E i, j \in 1..Len(statements) :
          /\ i < j
          /\ Len(statements[i].path) >= 2
          /\ Len(statements[j].path) >= 2
          /\ statements[i].path # statements[j].path
          /\ Head(statements[i].path) = Head(statements[j].path)
    /\ \E i, j \in 1..Len(statements) :
          /\ i < j
          /\ statements[i].path = statements[j].path
          /\ statements[i].value # statements[j].value

\* The first j statements are free of conflicts.
PrefixFreeUpTo(stmts, j) == PrefixFree(SubSeq(stmts, 1, j))

\* C2: when a statement's Path extends, by one or more fragments, the Path an
\* earlier statement assigned a leaf to, evaluate returns Err(ObjectOverride)
\* naming that later statement's dotted key (it neither panics nor returns Ok).
C2_LeafThenNamespace ==
    evaluated # None =>
        \A j \in 1..Len(statements) :
            ( /\ PrefixFreeUpTo(statements, j - 1)
              /\ \E i \in 1..(j - 1) :
                    IsProperPrefix(statements[i].path, statements[j].path) )
            => /\ evaluated[1].kind = "ObjectOverride"
               /\ evaluated[1].key = PathToString(statements[j].path)

\* C3: when a statement assigns a leaf at exactly the Path an earlier statement
\* made a namespace, evaluate fails with the structural conflict error naming
\* that statement (the Object is not replaced by the leaf).
C3_NamespaceThenLeaf ==
    evaluated # None =>
        \A j \in 1..Len(statements) :
            ( /\ PrefixFreeUpTo(statements, j - 1)
              /\ \E i \in 1..(j - 1) :
                    IsProperPrefix(statements[j].path, statements[i].path) )
            => /\ evaluated[1].kind = "ObjectOverride"
               /\ evaluated[1].key = PathToString(statements[j].path)

\* The Err(MismatchedType) evaluate returns for a statement under a schema type.
Mismatch(stmt, schema_type) ==
    [kind |-> "MismatchedType", tree |-> ValueObject(EmptyMap),
     key |-> PathToString(stmt.path),
     msg |-> <<PathToString(stmt.path), SchemaTypeFormat(schema_type),
               ValueFormat(stmt.value), SchemaTypeFormat(schema_type)>>]

\* The statement's Path has a schema entry that its Value does not satisfy.
Mismatches(stmt, sch) ==
    sch # None /\ stmt.path \in DOMAIN sch[1] /\ ~Check(stmt.value, sch[1][stmt.path])

\* C16: with a schema, at the first statement (in input order) whose Path has
\* a schema entry its Value does not satisfy, evaluate returns
\* Err(MismatchedType) naming that statement's key, the declared type and the
\* rendered value, and no tree, though the earlier statements were inserted
\* and whether or not the statement itself could be inserted.
C16_FirstMismatchIsReturned ==
    evaluated # None =>
        \A j \in 1..Len(statements) :
            ( /\ Mismatches(statements[j], schema)
              /\ \A i \in 1..(j - 1) : ~Mismatches(statements[i], schema)
              /\ PrefixFreeUpTo(statements, j - 1) )
            => evaluated[1] = Mismatch(statements[j], schema[1][statements[j].path])

\* C16 witness: the first statement passed its check and was inserted as a
\* leaf; the second, which extends its Path, failed its check.
C16_Witness ==
    /\ evaluated # None
    /\ Len(statements) = 2
    /\ schema # None
    /\ statements[1].path \in DOMAIN schema[1]
    /\ ~Mismatches(statements[1], schema)
    /\ IsProperPrefix(statements[1].path, statements[2].path)
    /\ Mismatches(statements[2], schema)
    /\ evaluated[1].kind = "MismatchedType"

\* C17: a statement whose Path the schema does not hold is not checked: with a
\* schema none of whose keys is the Path of a statement, evaluate returns what
\* it returns with no schema.
C17_UnlistedPathsUnchecked ==
    ( /\ evaluated # None
      /\ schema # None
      /\ \A i \in 1..Len(statements) : statements[i].path \notin DOMAIN schema[1] )
    => evaluated[1] = Evaluate(statements, None)

\* C17 witness: under a schema with an entry, two statements on Paths it does
\* not hold were evaluated to a tree.
C17_Witness ==
    /\ evaluated # None
    /\ schema # None
    /\ DOMAIN schema[1] # {}
    /\ Len(statements) = 2
    /\ \A i \in 1..Len(statements) : statements[i].path \notin DOMAIN schema[1]
    /\ evaluated[1].kind = "Ok"

\* The number is whole and lies in the range of a 64-bit signed integer
\* (compared on the nine leading digits 922337203 of 2^63).
WholeInRange(n) ==
    /\ ~n.inf
    /\ n.e >= 0
    /\ LET d == DigitCount(n.m) IN
       \/ n.m = 0
       \/ d + n.e <= 18
       \/ /\ d + n.e = 19
          /\ d <= 9
          /\ n.m * Pow10(9 - d) <= 922337203

\* The pairings of a Value and a SchemaType that the check lets pass.
Pairing(value, schema_type) ==
    \/ value.kind = "Boolean" /\ schema_type = "Boolean"
    \/ value.kind = "String" /\ schema_type = "String"
    \/ value.kind = "Number" /\ schema_type = "Float"
    \/ value.kind = "Number" /\ schema_type = "Integer" /\ WholeInRange(value.num)

\* C18: the check passes exactly for (Boolean, Boolean), (String, String),
\* (Number, Float) and (Number, Integer) under the integer condition; every
\* other pairing fails with a message that embeds the declared type's name
\* and the rendered value (seen on a single statement with a schema entry).
C18_CheckPairings ==
    ( /\ evaluated # None
      /\ Len(statements) = 1
      /\ schema # None
      /\ statements[1].path \in DOMAIN schema[1] )
    => LET ty == schema[1][statements[1].path]
       IN IF Pairing(statements[1].value, ty)
          THEN evaluated[1].kind = "Ok"
          ELSE evaluated[1] = Mismatch(statements[1], ty)

\* C18 witness: a Number was checked against a `string` entry and rejected.
C18_Witness ==
    /\ evaluated # None
    /\ Len(statements) = 1
    /\ schema # None
    /\ statements[1].path \in DOMAIN schema[1]
    /\ schema[1][statements[1].path] = "String"
    /\ statements[1].value.kind = "Number"
    /\ evaluated[1].kind = "MismatchedType"

\* C19: under an `integer` entry a Number passes only if it has no fractional
\* part and lies in the range of the platform's signed integer; a Number with
\* a fractional part or out of that range is rejected with MismatchedType.
C19_IntegerCondition ==
    evaluated # None =>
        \A j \in 1..Len(statements) :
            ( /\ schema # None
              /\ statements[j].path \in DOMAIN schema[1]
              /\ schema[1][statements[j].path] = "Integer"
              /\ statements[j].value.kind = "Number"
              /\ ~WholeInRange(statements[j].value.num)
              /\ \A i \in 1..(j - 1) : ~Mismatches(statements[i], schema)
              /\ PrefixFreeUpTo(statements, j - 1) )
            => /\ evaluated[1].kind = "MismatchedType"
               /\ evaluated[1].key = PathToString(statements[j].path)

\* C19 witness: a whole Number beyond 2^63 was rejected under an `integer`
\* entry.
C19_Witness ==
    /\ evaluated # None
    /\ Len(statements) = 1
    /\ schema # None
    /\ statements[1].path \in DOMAIN schema[1]
    /\ schema[1][statements[1].path] = "Integer"
    /\ statements[1].value.kind = "Number"
    /\ statements[1].value.num.e >= 19
    /\ evaluated[1].kind = "MismatchedType"

----------------------------------------------------------------------------
(* parser/src/char_reader/mod.rs: CharReader.                              *)

\* The capacity of the std::io::BufReader that BufReader::new creates.
DefaultCapacity == 8192

\* CharReader::new over a BufReader of the given capacity over the bytes: src
\* is what the BufReader has not delivered yet, avail how much of it lies in
\* its buffer.
NewCharReaderOver(bytes, capacity) ==
    [src |-> bytes, avail |-> 0, cap |-> capacity,
     line |-> 1, position |-> 0, peek_buffer |-> <<>>, peek_offset |-> 0]

\* CharReader::new over BufReader::new over the bytes
NewCharReader(bytes) == NewCharReaderOver(bytes, DefaultCapacity)

\* Ok((char, line, position)) and the variants of char_reader::error::Error:
\* c is the char of Ok, the byte of InvalidUTF8, the value of InvalidCodepoint.
ReaderResult(kind, c, line, pos) == [kind |-> kind, c |-> c, line |-> line, pos |-> pos]

Min(a, b) == IF a < b THEN a ELSE b

\* The N-byte array read_rest fills: the bytes the source delivered, then zeros.
RestArray(bytes, n) == [i \in 1..n |-> IF i <= Len(bytes) THEN bytes[i] ELSE 0]

\* The bytes in the BufReader's buffer, after the refill an empty buffer gets.
Filled(rd) == IF rd.avail = 0 THEN Min(rd.cap, Len(rd.src)) ELSE rd.avail

\* A read of n bytes on an empty buffer of at most n bytes goes past the
\* buffer to the source.
Bypasses(rd, n) == rd.avail = 0 /\ n >= rd.cap

\* self.reader.read(&mut [0u8; n]): how many bytes the BufReader delivers,
\* what its buffer holds and at most n, and the reader afterwards.
Delivered(rd, n) == IF Bypasses(rd, n) THEN Min(n, Len(rd.src)) ELSE Min(n, Filled(rd))

SourceRead(rd, n) ==
    [rd EXCEPT !.src = SubSeq(@, Delivered(rd, n) + 1, Len(@)),
               !.avail = IF Bypasses(rd, n) THEN 0 ELSE Filled(rd) - Delivered(rd, n)]

\* read_rest::<N>: .ok, the array .rest or the error .err, and the reader .st
ReadRest(rd, n) ==
    LET k == Delivered(rd, n)
        rest == RestArray(SubSeq(rd.src, 1, k), n)
        st == SourceRead(rd, n)
        bad == {i \in 1..n : rest[i] \div 64 # 2}
    IN IF k = 0
       THEN [ok |-> FALSE, rest |-> <<>>, st |-> rd,
             err |-> ReaderResult("EOF", 0, rd.line, rd.position)]
       ELSE IF bad # {}
       THEN [ok |-> FALSE, rest |-> <<>>, st |-> st,
             err |-> ReaderResult("InvalidUTF8",
                                  rest[CHOOSE i \in bad : \A j \in bad : i <= j],
                                  rd.line, rd.position)]
       ELSE [ok |-> TRUE, rest |-> rest, st |-> st,
             err |-> ReaderResult("Ok", 0, rd.line, rd.position)]

\* The number of continuation bytes the lead byte announces, -1 for none of
\* the four lead patterns.
RestLength(b) ==
    IF b \div 8 = 30 THEN 3
    ELSE IF b \div 16 = 14 THEN 2
    ELSE IF b \div 32 = 6 THEN 1
    ELSE IF b \div 128 = 0 THEN 0
    ELSE -1

\* The value assembled from the payload bits of the lead byte and the rest.
Assemble(b, rest) ==
    IF Len(rest) = 3
    THEN (b % 8) * 262144 + (rest[1] % 64) * 4096 + (rest[2] % 64) * 64 + (rest[3] % 64)
    ELSE IF Len(rest) = 2
    THEN (b % 16) * 4096 + (rest[1] % 64) * 64 + (rest[2] % 64)
    ELSE IF Len(rest) = 1
    THEN (b % 32) * 64 + (rest[1] % 64)
    ELSE b

\* char::from_u32 is Some: a Unicode scalar value
IsScalarValue(cp) == cp <= 1114111 /\ ~(cp >= 55296 /\ cp <= 57343)

\* A count of bytes in place of characters: the position moves by the length
\* of the sequence.
ReaderNextDecodedByBytes(b, rr) ==
    IF ~rr.ok
    THEN [res |-> rr.err, st |-> rr.st]
    ELSE
      LET codepoint == Assemble(b, rr.rest)
          st1 == [rr.st EXCEPT !.position = @ + 1 + Len(rr.rest)]
      IN IF ~IsScalarValue(codepoint)
         THEN [res |-> ReaderResult("InvalidCodepoint", codepoint, st1.line, st1.position),
               st |-> st1]
         ELSE [res |-> ReaderResult("Ok", codepoint, st1.line, st1.position),
               st |-> IF codepoint = CharLF
                      THEN [st1 EXCEPT !.line = @ + 1, !.position = 0]
                      ELSE st1]

\* CharReader::next once the continuation bytes of lead byte b are read (rr):
\* the value is assembled, checked and counted.
ReaderNextDecoded(b, rr) ==
    IF ~rr.ok
    THEN [res |-> rr.err, st |-> rr.st]
    ELSE
      LET codepoint == Assemble(b, rr.rest)
          st1 == [rr.st EXCEPT !.position = @ + 1]
      IN IF ~IsScalarValue(codepoint)
         THEN [res |-> ReaderResult("InvalidCodepoint", codepoint, st1.line, st1.position),
               st |-> st1]
         ELSE [res |-> ReaderResult("Ok", codepoint, st1.line, st1.position),
               st |-> IF codepoint = CharLF
                      THEN [st1 EXCEPT !.line = @ + 1, !.position = 0]
                      ELSE st1]

\* CharReader::next: the result .res and the reader afterwards .st
ReaderNext(rd) ==
    IF rd.src = <<>>
    THEN [res |-> ReaderResult("EOF", 0, rd.line, rd.position), st |-> rd]
    ELSE
      LET b == Head(rd.src)
          after == SourceRead(rd, 1)
          n == RestLength(b)
      IN IF n = -1
         THEN [res |-> ReaderResult("InvalidUTF8", b, rd.line, rd.position), st |-> after]
         ELSE ReaderNextDecoded(b, IF n = 0
                                   THEN [ok |-> TRUE, rest |-> <<>>, st |-> after,
                                         err |-> ReaderResult("Ok", 0, rd.line, rd.position)]
                                   ELSE ReadRest(after, n))

\* usize::saturating_sub(1)
SaturatingDec(n) == IF n = 0 THEN 0 ELSE n - 1

\* A peek that buffers whatever next() returned, the EOF too.
ReaderPeekBufferedAlways(r) ==
    [res |-> r.res, st |-> [r.st EXCEPT !.peek_buffer = Append(@, r.res)]]

\* CharReader::peek on an exhausted look-ahead: the result r of next() is
\* pushed to peek_buffer when it is Ok.
ReaderPeekBuffered(r) ==
    IF r.res.kind = "Ok"
    THEN [res |-> r.res, st |-> [r.st EXCEPT !.peek_buffer = Append(@, r.res)]]
    ELSE r

\* CharReader::peek
ReaderPeek(rd) ==
    IF rd.peek_offset > 0
    THEN [res |-> rd.peek_buffer[Len(rd.peek_buffer) - rd.peek_offset + 1],
          st |-> [rd EXCEPT !.peek_offset = @ - 1]]
    ELSE ReaderPeekBuffered(ReaderNext(rd))

\* A peek_back that stops at the size of the buffer without an error.
ReaderPeekBackClamped(rd) ==
    [res |-> ReaderResult("Ok", 0, 0, 0),
     st |-> [rd EXCEPT !.peek_offset = Min(@ + 1, Len(rd.peek_buffer))]]

\* CharReader::peek_back
ReaderPeekBack(rd) ==
    IF Len(rd.peek_buffer) < rd.peek_offset + 1
    THEN [res |-> ReaderResult("PeekBackError", 0, 0, 0), st |-> rd]
    ELSE [res |-> ReaderResult("Ok", 0, 0, 0), st |-> [rd EXCEPT !.peek_offset = @ + 1]]

\* The loop of CharReader::consume with i items to go and acc collected: .ok,
\* the String .text and the reader .st, which keeps what the loop popped
\* before it failed.
RECURSIVE ReaderConsumeLoop(_, _, _)
ReaderConsumeLoop(rd, i, acc) ==
    IF i = 0 THEN [ok |-> TRUE, text |-> acc, st |-> rd]
    ELSE IF rd.peek_buffer = <<>> THEN [ok |-> FALSE, text |-> <<>>, st |-> rd]
    ELSE ReaderConsumeLoop([rd EXCEPT !.peek_buffer = Tail(@),
                                      !.peek_offset = SaturatingDec(@)],
                           i - 1, Append(acc, Head(rd.peek_buffer).c))

\* A consume that takes the i most recently peeked items.
ReaderConsumeNewest(rd, i) ==
    IF Len(rd.peek_buffer) < i
    THEN [ok |-> FALSE, text |-> <<>>, st |-> rd]
    ELSE [ok |-> TRUE,
          text |-> [k \in 1..i |-> rd.peek_buffer[Len(rd.peek_buffer) - i + k].c],
          st |-> [rd EXCEPT !.peek_buffer = SubSeq(@, 1, Len(@) - i),
                            !.peek_offset = Min(@, Len(rd.peek_buffer) - i)]]

\* CharReader::consume
ReaderConsume(rd, i) == ReaderConsumeLoop(rd, i, <<>>)

\* A read that goes to the source though peeked items are buffered.
ReaderReadPastBuffer(rd) == ReaderNext(rd)

\* A read that returns the front of the look-ahead without popping it.
ReaderReadLeavesBuffer(rd) ==
    IF rd.peek_buffer = <<>>
    THEN ReaderNext(rd)
    ELSE [res |-> Head(rd.peek_buffer), st |-> rd]

\* CharReader::read
ReaderRead(rd) ==
    IF rd.peek_buffer = <<>>
    THEN ReaderNext(rd)
    ELSE [res |-> Head(rd.peek_buffer),
          st |-> [rd EXCEPT !.peek_buffer = Tail(@),
                            !.peek_offset = SaturatingDec(@)]]

----------------------------------------------------------------------------
(* parser/src/lexer: Token and Lexer.                                      *)

\* Token::new(line, start..=end, ty); text is the String of Type::Ident
Token(line, start, end, ty, text) ==
    [ty |-> ty, text |-> text, line |-> line, start |-> start, end |-> end]

\* Result<Token, lexer::error::Error>: the error keeps the reader's error
LexOk(tok) == [ok |-> TRUE, tok |-> tok, err |-> ReaderResult("Ok", 0, 0, 0)]

LexErr(e) == [ok |-> FALSE, tok |-> Token(0, 0, 0, "EOF", <<>>), err |-> e]

\* Lexer::new
NewLexer(bytes) == [reader |-> NewCharReader(bytes), peeking |-> None]

\* A resolve_token that knows the space and not the tab or the carriage return.
ResolveTokenSpaceOnly(c, pos) ==
    IF c = CharSpace THEN "Space"
    ELSE IF c = CharLF THEN "Return"
    ELSE IF c = CharDot THEN "Dot"
    ELSE IF c = CharEqual THEN "Equal"
    ELSE IF c \in {CharHash, CharSemicolon} /\ pos = 1 THEN "Comment"
    ELSE IF c = CharMinus /\ pos = 1 THEN "Ignore"
    ELSE "None"

\* Lexer::resolve_token, "None" for None
ResolveToken(c, pos) ==
    IF c \in {CharSpace, CharTab, CharCR} THEN "Space"
    ELSE IF c = CharLF THEN "Return"
    ELSE IF c = CharDot THEN "Dot"
    ELSE IF c = CharEqual THEN "Equal"
    ELSE IF c \in {CharHash, CharSemicolon} /\ pos = 1 THEN "Comment"
    ELSE IF c = CharMinus /\ pos = 1 THEN "Ignore"
    ELSE "None"

\* The whitespace loop of Lexer::next: .ok, .last_pos or .err, and the reader .st
RECURSIVE SpaceLoop(_, _)

\* A whitespace loop that does not move last_pos to the peeked position.
SpaceLoopReadKeepsEnd(last_pos, p, r) ==
    IF r.res.kind # "Ok"
    THEN [ok |-> FALSE, last_pos |-> last_pos, err |-> r.res, st |-> r.st]
    ELSE SpaceLoop(r.st, last_pos)

\* ... after self.reader.read() of the peeked whitespace p returned r
SpaceLoopRead(last_pos, p, r) ==
    IF r.res.kind # "Ok"
    THEN [ok |-> FALSE, last_pos |-> last_pos, err |-> r.res, st |-> r.st]
    ELSE SpaceLoop(r.st, p.res.pos)

\* ... after self.reader.peek() returned p
SpaceLoopPeeked(last_pos, p) ==
    IF p.res.kind = "EOF"
    THEN [ok |-> TRUE, last_pos |-> last_pos, err |-> p.res, st |-> p.st]
    ELSE IF p.res.kind # "Ok"
    THEN [ok |-> FALSE, last_pos |-> last_pos, err |-> p.res, st |-> p.st]
    ELSE IF ResolveToken(p.res.c, p.res.pos) = "Space"
    THEN SpaceLoopRead(last_pos, p, ReaderRead(p.st))
    ELSE [ok |-> TRUE, last_pos |-> last_pos, err |-> p.res, st |-> p.st]

SpaceLoop(rd, last_pos) == SpaceLoopPeeked(last_pos, ReaderPeek(rd))

\* The text `->`
ArrowText == <<CharMinus, CharGreater>>

\* The identifier loop of Lexer::next: .ok, .value, .last_pos, .arrow (the text
\* became `->`) or .err, and the reader .st
RECURSIVE IdentLoop(_, _, _)

IdentLoopOut(ok, arrow, value, last_pos, e, st) ==
    [ok |-> ok, arrow |-> arrow, value |-> value, last_pos |-> last_pos, err |-> e,
     st |-> st]

\* An identifier loop that tests whether the text ends with `->`.
IdentLoopReadEndsWith(value, p, r) ==
    IF r.res.kind # "Ok"
    THEN IdentLoopOut(FALSE, FALSE, value, p.res.pos, r.res, r.st)
    ELSE IF Len(value) >= 2 /\ SubSeq(value, Len(value) - 1, Len(value)) = ArrowText
    THEN IdentLoopOut(TRUE, TRUE, value, p.res.pos, r.res, r.st)
    ELSE IdentLoop(r.st, value, p.res.pos)

\* ... after the peeked character p was pushed (value) and read (r)
IdentLoopRead(value, p, r) ==
    IF r.res.kind # "Ok"
    THEN IdentLoopOut(FALSE, FALSE, value, p.res.pos, r.res, r.st)
    ELSE IF value = ArrowText
    THEN IdentLoopOut(TRUE, TRUE, value, p.res.pos, r.res, r.st)
    ELSE IdentLoop(r.st, value, p.res.pos)

\* ... after self.reader.peek() returned p
IdentLoopPeeked(value, last_pos, p) ==
    IF p.res.kind = "EOF"
    THEN IdentLoopOut(TRUE, FALSE, value, last_pos, p.res, p.st)
    ELSE IF p.res.kind # "Ok"
    THEN IdentLoopOut(FALSE, FALSE, value, last_pos, p.res, p.st)
    ELSE IF ResolveToken(p.res.c, p.res.pos) = "None"
    THEN IdentLoopRead(Append(value, p.res.c), p, ReaderRead(p.st))
    ELSE IdentLoopOut(TRUE, FALSE, value, last_pos, p.res, p.st)

IdentLoop(rd, value, last_pos) == IdentLoopPeeked(value, last_pos, ReaderPeek(rd))

\* A result of Lexer::next that leaves the reader rd
LexerNextWith(lx, res, rd) == [res |-> res, st |-> [lx EXCEPT !.reader = rd]]

\* Ok(Token::new(line, start..=end, ty))
LexerNextOk(lx, line, start, end, ty, text, rd) ==
    LexerNextWith(lx, LexOk(Token(line, start, end, ty, text)), rd)

\* The whitespace arm of Lexer::next once its loop ended as l
LexerNextSpace(lx, line, pos, l) ==
    IF l.ok
    THEN LexerNextOk(lx, line, pos, l.last_pos, "Space", <<>>, l.st)
    ELSE LexerNextWith(lx, LexErr(l.err), l.st)

\* The identifier arm of Lexer::next once its loop ended as l
LexerNextIdent(lx, line, pos, l) ==
    IF ~l.ok
    THEN LexerNextWith(lx, LexErr(l.err), l.st)
    ELSE IF l.arrow
    THEN LexerNextOk(lx, line, pos, l.last_pos, "Equal", <<>>, l.st)
    ELSE LexerNextOk(lx, line, pos, l.last_pos, "Ident", l.value, l.st)

\* A `match c` whose comment and ignore arms do not look at the column.
LexerNextMatchAnyColumn(lx, c, line, pos, rd) ==
    IF c \in {CharSpace, CharTab, CharCR}
    THEN LexerNextSpace(lx, line, pos, SpaceLoop(rd, pos))
    ELSE IF c = CharLF THEN LexerNextOk(lx, line, pos, pos, "Return", <<>>, rd)
    ELSE IF c = CharDot THEN LexerNextOk(lx, line, pos, pos, "Dot", <<>>, rd)
    ELSE IF c = CharEqual THEN LexerNextOk(lx, line, pos, pos, "Equal", <<>>, rd)
    ELSE IF c \in {CharHash, CharSemicolon}
    THEN LexerNextOk(lx, line, pos, pos, "Comment", <<>>, rd)
    ELSE IF c = CharMinus
    THEN LexerNextOk(lx, line, pos, pos, "Ignore", <<>>, rd)
    ELSE LexerNextIdent(lx, line, pos, IdentLoop(rd, <<c>>, pos))

\* The `match c` of Lexer::next
LexerNextMatch(lx, c, line, pos, rd) ==
    IF c \in {CharSpace, CharTab, CharCR}
    THEN LexerNextSpace(lx, line, pos, SpaceLoop(rd, pos))
    ELSE IF c = CharLF THEN LexerNextOk(lx, line, pos, pos, "Return", <<>>, rd)
    ELSE IF c = CharDot THEN LexerNextOk(lx, line, pos, pos, "Dot", <<>>, rd)
    ELSE IF c = CharEqual THEN LexerNextOk(lx, line, pos, pos, "Equal", <<>>, rd)
    ELSE IF c \in {CharHash, CharSemicolon} /\ pos = 1
    THEN LexerNextOk(lx, line, pos, pos, "Comment", <<>>, rd)
    ELSE IF c = CharMinus /\ pos = 1
    THEN LexerNextOk(lx, line, pos, pos, "Ignore", <<>>, rd)
    ELSE LexerNextIdent(lx, line, pos, IdentLoop(rd, <<c>>, pos))

\* A next() that passes the reader's EOF on as an error.
LexerNextReadEOFAsError(lx, r) ==
    IF r.res.kind # "Ok"
    THEN LexerNextWith(lx, LexErr(r.res), r.st)
    ELSE LexerNextMatch(lx, r.res.c, r.res.line, r.res.pos, r.st)

\* Lexer::next once self.reader.read() returned r
LexerNextRead(lx, r) ==
    IF r.res.kind = "EOF"
    THEN LexerNextOk(lx, r.res.line, r.res.pos, r.res.pos, "EOF", <<>>, r.st)
    ELSE IF r.res.kind # "Ok"
    THEN LexerNextWith(lx, LexErr(r.res), r.st)
    ELSE LexerNextMatch(lx, r.res.c, r.res.line, r.res.pos, r.st)

\* Lexer::next: the result .res and the lexer afterwards .st
LexerNext(lx) ==
    IF lx.peeking # None
    THEN [res |-> lx.peeking[1], st |-> [lx EXCEPT !.peeking = None]]
    ELSE LexerNextRead(lx, ReaderRead(lx.reader))

\* A peek() that returns self.next() without keeping it.
LexerPeekUncached(r) == r

\* self.peeking = Some(self.next())
LexerPeekCached(r) == [res |-> r.res, st |-> [r.st EXCEPT !.peeking = Some(r.res)]]

\* Lexer::peek: the cached result .res and the lexer afterwards .st
LexerPeek(lx) ==
    IF lx.peeking = None
    THEN LexerPeekCached(LexerNext(lx))
    ELSE [res |-> lx.peeking[1], st |-> lx]

----------------------------------------------------------------------------
(* node/src/lib.rs: Value::from and SchemaType::from.                      *)

IsDigit(c) == c >= CharZero /\ c <= CharNine

AllDigits(t) == \A i \in 1..Len(t) : IsDigit(t[i])

\* The characters parse_number lets through to the f64 parse.
IsNumberChar(c) == c = CharMinus \/ IsDigit(c) \/ c = CharDot \/ c = CharLowerE \/ c = CharUpperE

\* The first index of t holding a character of S, 0 when there is none.
IndexOf(t, S) ==
    IF \E i \in 1..Len(t) : t[i] \in S
    THEN CHOOSE i \in 1..Len(t) : t[i] \in S /\ \A j \in 1..(i - 1) : t[j] \notin S
    ELSE 0

RECURSIVE DigitsValue(_)
DigitsValue(t) ==
    IF t = <<>> THEN 0
    ELSE 10 * DigitsValue(SubSeq(t, 1, Len(t) - 1)) + (t[Len(t)] - CharZero)

\* The decimal m * 10^e with trailing zeros of m moved into e.
RECURSIVE Normalize(_, _, _)
Normalize(neg, m, e) ==
    IF m = 0 THEN [neg |-> neg, m |-> 0, e |-> 0, inf |-> FALSE]
    ELSE IF m % 10 = 0 THEN Normalize(neg, m \div 10, e + 1)
    ELSE [neg |-> neg, m |-> m, e |-> e, inf |-> FALSE]

\* The nine leading digits of m (m has at most nine digits in the texts
\* parsed here), to compare a magnitude with the limits of f64.
Lead9(m) == m * Pow10(9 - DigitCount(m))

\* The f64 nearest to a normalised decimal: infinity above f64::MAX
\* (1.7976931348623157e308), zero at and below half the least positive f64
\* (2.4703282292062327e-324), the decimal itself between them (the rounding
\* of a mantissa to 53 bits needs more digits than the texts parsed here have).
F64Nearest(n) ==
    LET mag == DigitCount(n.m) + n.e - 1
    IN IF n.m = 0 THEN n
       ELSE IF mag > 308 \/ (mag = 308 /\ Lead9(n.m) >= 179769314)
       THEN [neg |-> n.neg, m |-> 0, e |-> 0, inf |-> TRUE]
       ELSE IF mag < -324 \/ (mag = -324 /\ Lead9(n.m) <= 247032822)
       THEN [neg |-> n.neg, m |-> 0, e |-> 0, inf |-> FALSE]
       ELSE n

\* str::parse::<f64> on a text of number characters: .ok and the value .num.
\* The grammar is [-] (digits [. digits*] | . digits) [(e|E) [-] digits].
ParseF64(t) ==
    LET neg == t # <<>> /\ t[1] = CharMinus
        body == IF neg THEN Tail(t) ELSE t
        ie == IndexOf(body, {CharLowerE, CharUpperE})
        mant == IF ie = 0 THEN body ELSE SubSeq(body, 1, ie - 1)
        expt == IF ie = 0 THEN <<>> ELSE SubSeq(body, ie + 1, Len(body))
        idot == IndexOf(mant, {CharDot})
        ip == IF idot = 0 THEN mant ELSE SubSeq(mant, 1, idot - 1)
        fp == IF idot = 0 THEN <<>> ELSE SubSeq(mant, idot + 1, Len(mant))
        eneg == expt # <<>> /\ expt[1] = CharMinus
        ed == IF eneg THEN Tail(expt) ELSE expt
        ok == /\ AllDigits(ip)
              /\ AllDigits(fp)
              /\ Len(ip) + Len(fp) >= 1
              /\ (ie # 0 => (ed # <<>> /\ AllDigits(ed)))
    IN IF ok
       THEN [ok |-> TRUE,
             num |-> F64Nearest(Normalize(neg, DigitsValue(ip \o fp),
                                          (IF eneg THEN 0 - DigitsValue(ed)
                                           ELSE DigitsValue(ed)) - Len(fp)))]
       ELSE [ok |-> FALSE, num |-> NoNum]

\* .map(|value| Value::Number(value)).ok() on the result r of the f64 parse
ParseNumberOk(r) == IF r.ok THEN Some(ValueNumber(r.num)) ELSE None

\* parse_number: Some(Value::Number) as <<value>>, None as <<>>
ParseNumber(input) ==
    IF input = <<>> THEN None
    ELSE IF \E i \in 1..Len(input) : ~IsNumberChar(input[i]) THEN None
    ELSE ParseNumberOk(ParseF64(input))

\* parse_boolean
ParseBoolean(input) ==
    IF input = TextTrue THEN Some(ValueBoolean(TRUE))
    ELSE IF input = TextFalse THEN Some(ValueBoolean(FALSE))
    ELSE None

\* The Option chain of Value::from: the first Some of the number and the
\* boolean, the String otherwise.
ValueFromOr(text, number, boolean) ==
    IF number # None THEN number[1]
    ELSE IF boolean # None THEN boolean[1]
    ELSE ValueString(text)

\* impl From<String> for Value
ValueFrom(text) == ValueFromOr(text, ParseNumber(text), ParseBoolean(text))

\* A conversion that knows `Bool` next to `bool`.
SchemaTypeFromEitherCase(text) ==
    IF text = TextInteger THEN "Integer"
    ELSE IF text = TextBool \/ text = <<66, 111, 111, 108>> THEN "Boolean"
    ELSE IF text = TextFloat THEN "Float"
    ELSE "String"

\* impl From<String> for SchemaType
SchemaTypeFrom(text) ==
    IF text = TextInteger THEN "Integer"
    ELSE IF text = TextBool THEN "Boolean"
    ELSE IF text = TextFloat THEN "Float"
    ELSE "String"

\* char::is_whitespace (the White_Space property), which str::trim strips
IsWhitespace(c) ==
    \/ c \in {9, 10, 11, 12, 13, 32, 133, 160, 5760, 8232, 8233, 8239, 8287, 12288}
    \/ (c >= 8192 /\ c <= 8202)

\* str::trim
RECURSIVE TrimStart(_)
TrimStart(t) ==
    IF t # <<>> /\ IsWhitespace(Head(t)) THEN TrimStart(Tail(t)) ELSE t

RECURSIVE TrimEnd(_)
TrimEnd(t) ==
    IF t # <<>> /\ IsWhitespace(t[Len(t)]) THEN TrimEnd(SubSeq(t, 1, Len(t) - 1)) ELSE t

Trim(t) == TrimEnd(TrimStart(t))

----------------------------------------------------------------------------
(* parser/src/lib.rs: Parser<T, U>.                                        *)

\* Parser::new; payload names the type U ("Value" or "SchemaType")
NewParser(bytes, payload) ==
    [lexer |-> NewLexer(bytes), ignore |-> FALSE, payload |-> payload]

\* U::from(text)
Convert(payload, text) ==
    IF payload = "SchemaType" THEN SchemaTypeFrom(text) ELSE ValueFrom(text)

\* The messages of Error::SyntaxError, by the place that raises them.
MsgIgnoreTwice == "Ignore specified more than once"
MsgLineStart == "line must start with comment, identifier, or ignore-marker"
MsgKey == "failed to read the key"
MsgValueStart == "a value must be an identifier"
MsgAfterValue == "only a line break or the end may follow a value"

\* Result<Vec<Statement<U>>, Error> of parse: Ok(statements),
\* Err(SyntaxError(msg, Location)), Err(LexerError), or a panic of unreachable!()
ParseOk(stmts) ==
    [kind |-> "Ok", statements |-> stmts, msg |-> "", line |-> 0, start |-> 0, end |-> 0]

SyntaxError(msg, tok) ==
    [kind |-> "SyntaxError", statements |-> <<>>, msg |-> msg,
     line |-> tok.line, start |-> tok.start, end |-> tok.end]

LexerError(e) ==
    [kind |-> "LexerError", statements |-> <<>>, msg |-> e.kind,
     line |-> e.line, start |-> e.pos, end |-> e.pos]

ParsePanic ==
    [kind |-> "Panic", statements |-> <<>>, msg |-> "", line |-> 0, start |-> 0, end |-> 0]

\* Parser::read_until_line_end: .ok or the error .err, and the parser .st
RECURSIVE ReadUntilLineEnd(_)

\* ... once self.lexer.next() returned r
ReadUntilLineEndNext(ps, r) ==
    LET st1 == [ps EXCEPT !.lexer = r.st]
    IN IF ~r.res.ok
       THEN [ok |-> FALSE, err |-> LexerError(r.res.err), st |-> st1]
       ELSE IF r.res.tok.ty \in {"Return", "EOF"}
       THEN [ok |-> TRUE, err |-> ParseOk(<<>>), st |-> [st1 EXCEPT !.ignore = FALSE]]
       ELSE ReadUntilLineEnd(st1)

ReadUntilLineEnd(ps) == ReadUntilLineEndNext(ps, LexerNext(ps.lexer))

\* The loop of Parser::parse_key: .ok, the Path .path or the error .err, .st
RECURSIVE KeyLoop(_, _, _)

\* ... the `match` on the peeked result p; n is what self.lexer.next() then returns
KeyLoopMatch(ps, path, value_phase, p, n) ==
    LET st1 == [ps EXCEPT !.lexer = p.st]
        st2 == [ps EXCEPT !.lexer = n.st]
        out(ok, e, st) == [ok |-> ok, path |-> path, err |-> e, st |-> st]
    IN IF ~p.res.ok
       THEN out(FALSE, LexerError(p.res.err), st1)
       ELSE IF p.res.tok.ty = "Dot"
       THEN IF value_phase THEN out(TRUE, ParseOk(<<>>), st1)
            ELSE KeyLoop(st2, path, value_phase)
       ELSE IF p.res.tok.ty = "Ident"
       THEN IF value_phase THEN out(TRUE, ParseOk(<<>>), st1)
            ELSE KeyLoop(st2, Append(path, n.res.tok.text), value_phase)
       ELSE IF p.res.tok.ty \in {"Space", "Equal"}
       THEN KeyLoop(st2, path, TRUE)
       ELSE out(FALSE, SyntaxError(MsgKey, n.res.tok), st2)

\* ... once self.lexer.peek() returned p
KeyLoopPeeked(ps, path, value_phase, p) ==
    KeyLoopMatch(ps, path, value_phase, p, LexerNext(p.st))

KeyLoop(ps, path, value_phase) == KeyLoopPeeked(ps, path, value_phase, LexerPeek(ps.lexer))

\* Parser::parse_key once the first self.lexer.next() returned n
ParseKeyFirst(ps, n) ==
    LET st1 == [ps EXCEPT !.lexer = n.st]
    IN IF ~n.res.ok
       THEN [ok |-> FALSE, path |-> <<>>, err |-> LexerError(n.res.err), st |-> st1]
       ELSE IF n.res.tok.ty = "Ident"
       THEN KeyLoop(st1, <<n.res.tok.text>>, FALSE)
       ELSE [ok |-> FALSE, path |-> <<>>, err |-> ParsePanic, st |-> st1]

\* Parser::parse_key
ParseKey(ps) == ParseKeyFirst(ps, LexerNext(ps.lexer))

\* The loop of Parser::parse_value: .ok, the payload .value or the error .err, .st
RECURSIVE ValueLoop(_, _)

\* ... once self.lexer.next() returned n
ValueLoopNext(ps, total_value, n) ==
    LET st1 == [ps EXCEPT !.lexer = n.st]
        ty == n.res.tok.ty
    IN IF ~n.res.ok
       THEN [ok |-> FALSE, value |-> <<>>, err |-> LexerError(n.res.err), st |-> st1]
       ELSE IF ty = "Space" THEN ValueLoop(st1, Append(total_value, CharSpace))
       ELSE IF ty = "Dot" THEN ValueLoop(st1, Append(total_value, CharDot))
       ELSE IF ty = "Ident" THEN ValueLoop(st1, total_value \o n.res.tok.text)
       ELSE IF ty \in {"Return", "EOF"}
       THEN [ok |-> TRUE, value |-> Convert(ps.payload, Trim(total_value)),
             err |-> ParseOk(<<>>), st |-> [st1 EXCEPT !.ignore = FALSE]]
       ELSE [ok |-> FALSE, value |-> <<>>, err |-> SyntaxError(MsgAfterValue, n.res.tok),
             st |-> st1]

ValueLoop(ps, total_value) == ValueLoopNext(ps, total_value, LexerNext(ps.lexer))

\* Parser::parse_value once the first self.lexer.next() returned n
ParseValueFirst(ps, n) ==
    LET st1 == [ps EXCEPT !.lexer = n.st]
    IN IF ~n.res.ok
       THEN [ok |-> FALSE, value |-> <<>>, err |-> LexerError(n.res.err), st |-> st1]
       ELSE IF n.res.tok.ty = "Ident" THEN ValueLoop(st1, n.res.tok.text)
       ELSE IF n.res.tok.ty = "Dot" THEN ValueLoop(st1, <<CharDot>>)
       ELSE [ok |-> FALSE, value |-> <<>>, err |-> SyntaxError(MsgValueStart, n.res.tok),
             st |-> st1]

\* Parser::parse_value
ParseValue(ps) == ParseValueFirst(ps, LexerNext(ps.lexer))

\* A swallow whatever the ignore flag says.
SwallowsAlways(ps) == TRUE

\* `if self.ignore` of the Err(SyntaxError) arms of Parser::parse_statement
Swallows(ps) == ps.ignore

\* A skip to the line end even when the peeked token starts a line.
SkipsLineAlways(p) == p.res.ok

\* The rest of the line is discarded when the peeked token p is Ok and does
\* not start at column 1.
SkipsLine(p) == p.res.ok /\ p.res.tok.start # 1

\* A swallow that leaves the ignore flag as it is.
SwallowedKeepsIgnore(ps) == ps

\* self.ignore = false; return Ok(None)
Swallowed(ps) == [ps EXCEPT !.ignore = FALSE]

\* ... once read_until_line_end returned rl
SwallowSkipped(rl) ==
    IF ~rl.ok
    THEN [kind |-> "Err", statement |-> <<>>, err |-> rl.err, st |-> rl.st]
    ELSE [kind |-> "None", statement |-> <<>>, err |-> ParseOk(<<>>), st |-> Swallowed(rl.st)]

\* ... once self.lexer.peek() returned p
SwallowPeeked(ps, p) ==
    IF SkipsLine(p)
    THEN SwallowSkipped(ReadUntilLineEnd([ps EXCEPT !.lexer = p.st]))
    ELSE [kind |-> "None", statement |-> <<>>, err |-> ParseOk(<<>>),
          st |-> Swallowed([ps EXCEPT !.lexer = p.st])]

\* The Err(SyntaxError) arm of Parser::parse_statement: Ok(None) as kind "None"
\* when the ignore flag is set, the error otherwise.
Swallow(ps, e) ==
    IF Swallows(ps)
    THEN SwallowPeeked(ps, LexerPeek(ps.lexer))
    ELSE [kind |-> "Err", statement |-> <<>>, err |-> e, st |-> ps]

\* The Err arms of Parser::parse_statement on the failed result r
ParseStatementFailed(r) ==
    IF r.err.kind = "SyntaxError" THEN Swallow(r.st, r.err)
    ELSE [kind |-> "Err", statement |-> <<>>, err |-> r.err, st |-> r.st]

\* Parser::parse_statement once parse_key returned k and parse_value v
ParseStatementValued(k, v) ==
    IF ~v.ok THEN ParseStatementFailed(v)
    ELSE [kind |-> "Some", statement |-> <<Statement(k.path, v.value)>>,
          err |-> ParseOk(<<>>), st |-> v.st]

\* Parser::parse_statement once parse_key returned k
ParseStatementKeyed(k) ==
    IF ~k.ok THEN ParseStatementFailed(k) ELSE ParseStatementValued(k, ParseValue(k.st))

\* Parser::parse_statement: Ok(Some(statement)), Ok(None) or Err(error)
ParseStatement(ps) == ParseStatementKeyed(ParseKey(ps))

\* A `match` of Parser::parse that lets a Dot (not an Equal) start a line.
LineStartDotSkipped(ty) ==
    IF ty = "EOF" THEN "break"
    ELSE IF ty = "Ident" THEN "statement"
    ELSE IF ty = "Ignore" THEN "ignore"
    ELSE IF ty = "Comment" THEN "comment"
    ELSE IF ty \in {"Space", "Dot"} THEN "skip"
    ELSE IF ty = "Return" THEN "return"
    ELSE "error"

\* A `match` of Parser::parse that skips the Comment token alone, not its line.
LineStartCommentSkipped(ty) ==
    IF ty = "EOF" THEN "break"
    ELSE IF ty = "Ident" THEN "statement"
    ELSE IF ty = "Ignore" THEN "ignore"
    ELSE IF ty \in {"Space", "Comment"} THEN "skip"
    ELSE IF ty = "Return" THEN "return"
    ELSE "error"

\* A `match` of Parser::parse without the EOF arm: EOF falls to the last arm.
LineStartEOFFatal(ty) ==
    IF ty = "Ident" THEN "statement"
    ELSE IF ty = "Ignore" THEN "ignore"
    ELSE IF ty = "Comment" THEN "comment"
    ELSE IF ty = "Space" THEN "skip"
    ELSE IF ty = "Return" THEN "return"
    ELSE "error"

\* The arm the `match` of Parser::parse takes on the peeked token's type.
LineStart(ty) ==
    IF ty = "EOF" THEN "break"
    ELSE IF ty = "Ident" THEN "statement"
    ELSE IF ty = "Ignore" THEN "ignore"
    ELSE IF ty = "Comment" THEN "comment"
    ELSE IF ty = "Space" THEN "skip"
    ELSE IF ty = "Return" THEN "return"
    ELSE "error"

\* The loop of Parser::parse; stmts are the statements pushed so far
RECURSIVE ParseLoop(_, _)

\* statements.push(self.parse_statement()?) on the result r
ParseLoopPushed(stmts, r) ==
    IF r.kind = "Err"
    THEN [res |-> r.err, st |-> r.st]
    ELSE ParseLoop(r.st, stmts \o r.statement)

\* self.read_until_line_end()? on the result rl
ParseLoopCommented(stmts, rl) ==
    IF ~rl.ok
    THEN [res |-> rl.err, st |-> rl.st]
    ELSE ParseLoop(rl.st, stmts)

\* ... the `match` on the peeked result p; n is what self.lexer.next() then returns
ParseLoopMatch(ps, stmts, p, n) ==
    LET st1 == [ps EXCEPT !.lexer = p.st]
        st2 == [ps EXCEPT !.lexer = n.st]
        arm == LineStart(p.res.tok.ty)
    IN IF ~p.res.ok
       THEN [res |-> LexerError(p.res.err), st |-> st1]
       ELSE IF arm = "break"
       THEN [res |-> ParseOk(stmts), st |-> st1]
       ELSE IF arm = "statement"
       THEN ParseLoopPushed(stmts, ParseStatement(st1))
       ELSE IF arm = "ignore"
       THEN IF ps.ignore
            THEN [res |-> SyntaxError(MsgIgnoreTwice, p.res.tok), st |-> st1]
            ELSE ParseLoop([st2 EXCEPT !.ignore = TRUE], stmts)
       ELSE IF arm = "comment"
       THEN ParseLoopCommented(stmts, ReadUntilLineEnd(st1))
       ELSE IF arm = "skip"
       THEN ParseLoop(st2, stmts)
       ELSE IF arm = "return"
       THEN ParseLoop([st2 EXCEPT !.ignore = FALSE], stmts)
       ELSE [res |-> SyntaxError(MsgLineStart, p.res.tok), st |-> st1]

\* ... once self.lexer.peek() returned p
ParseLoopPeeked(ps, stmts, p) == ParseLoopMatch(ps, stmts, p, LexerNext(p.st))

ParseLoop(ps, stmts) == ParseLoopPeeked(ps, stmts, LexerPeek(ps.lexer))

\* Parser::parse: the result .res and the parser afterwards .st
Parse(ps) == ParseLoop(ps, <<>>)

----------------------------------------------------------------------------
(* The parser driven on bounded sources.                                   *)

\* The characters of the sources: an identifier character, the ignore
\* marker, the dot, the equal sign, the space and the line break.
ParseAlphabet == {97, CharMinus, CharDot, CharEqual, CharSpace, CharLF}

InitParse ==
    /\ source \in SeqsUpTo(ParseAlphabet, MaxSourceLen)
    /\ parser = NewParser(source, "Value")
    /\ results = <<>>
    /\ lines = <<>>
    /\ statements = <<>>
    /\ schema = None
    /\ evaluated = None
    /\ given = <<>>
    /\ converted = None
    /\ reader = NoReader
    /\ calls = <<>>
    /\ lexer = NoLexer
    /\ tokens = <<>>
    /\ run = NoRun

\* The first parse() call on the Parser.
ParseCall ==
    /\ results = <<>>
    /\ \E r \in {Parse(parser)} :
          /\ results' = <<r.res>>
          /\ parser' = r.st
    /\ UNCHANGED <<source, lines, statements, schema, evaluated, given, converted, reader, calls, lexer, tokens, run>>

NextParse == ParseCall

SpecParse == InitParse /\ [][NextParse]_vars

\* The characters of the sources with comment lines: both comment markers
\* in place of the ignore marker.
CommentAlphabet == {97, CharHash, CharSemicolon, CharDot, CharEqual, CharSpace, CharLF}

InitComment ==
    /\ source \in SeqsUpTo(CommentAlphabet, MaxSourceLen)
    /\ parser = NewParser(source, "Value")
    /\ results = <<>>
    /\ lines = <<>>
    /\ statements = <<>>
    /\ schema = None
    /\ evaluated = None
    /\ given = <<>>
    /\ converted = None
    /\ reader = NoReader
    /\ calls = <<>>
    /\ lexer = NoLexer
    /\ tokens = <<>>
    /\ run = NoRun

SpecComment == InitComment /\ [][NextParse]_vars

\* parse() called again and again on the same Parser.
InitReparse ==
    /\ source \in SeqsUpTo(ParseAlphabet, MaxReparseLen)
    /\ parser = NewParser(source, "Value")
    /\ results = <<>>
    /\ lines = <<>>
    /\ statements = <<>>
    /\ schema = None
    /\ evaluated = None
    /\ given = <<>>
    /\ converted = None
    /\ reader = NoReader
    /\ calls = <<>>
    /\ lexer = NoLexer
    /\ tokens = <<>>
    /\ run = NoRun

\* A later parse() call on the Parser the earlier calls left.
ParseAgain ==
    /\ results # <<>>
    /\ Len(results) < MaxParseCalls
    /\ \E r \in {Parse(parser)} :
          /\ results' = Append(results, r.res)
          /\ parser' = r.st
    /\ UNCHANGED <<source, lines, statements, schema, evaluated, given, converted, reader, calls, lexer, tokens, run>>

NextReparse == ParseCall \/ ParseAgain

SpecReparse == InitReparse /\ [][NextReparse]_vars

\* Well-formed lines `lead key sep value`: the keys, separators, values and
\* leading Space they are written from.
GrammarKeys == {<<<<97>>>>, <<<<98>>>>, <<<<97>>, <<98>>>>}

GrammarSeps == {<<CharEqual>>, <<CharSpace, CharEqual, CharSpace>>}

GrammarValues ==
    {<<97>>, <<49, CharSpace>>, <<97, CharSpace, 98>>, <<97, CharSpace, CharSpace, 98>>,
     <<97, CharTab, 98>>, <<49, CharDot, 53>>}

GrammarLeads == {<<>>, <<CharSpace>>}

GrammarLines ==
    [lead : GrammarLeads, key : GrammarKeys, sep : GrammarSeps, value : GrammarValues]

\* The text of a line and of a sequence of lines.
RenderLine(l) == l.lead \o JoinDot(l.key) \o l.sep \o l.value

RECURSIVE Render(_)
Render(ls) ==
    IF ls = <<>> THEN <<>>
    ELSE IF Len(ls) = 1 THEN RenderLine(ls[1])
    ELSE RenderLine(ls[1]) \o <<CharLF>> \o Render(Tail(ls))

InitGrammar ==
    /\ lines = <<>>
    /\ source = <<>>
    /\ parser = NewParser(<<>>, "Value")
    /\ results = <<>>
    /\ statements = <<>>
    /\ schema = None
    /\ evaluated = None
    /\ given = <<>>
    /\ converted = None
    /\ reader = NoReader
    /\ calls = <<>>
    /\ lexer = NoLexer
    /\ tokens = <<>>
    /\ run = NoRun

\* One more well-formed line is written to the source the Parser is created over.
WriteLine ==
    /\ results = <<>>
    /\ Len(lines) < MaxLines
    /\ \E l \in GrammarLines :
          /\ lines' = Append(lines, l)
          /\ source' = Render(lines')
          /\ parser' = NewParser(source', "Value")
    /\ UNCHANGED <<results, statements, schema, evaluated, given, converted, reader, calls, lexer, tokens, run>>

NextGrammar == WriteLine \/ ParseCall

SpecGrammar == InitGrammar /\ [][NextGrammar]_vars

\* Schema lines `lead key -> typename`: the type names they are written from,
\* the three the conversion knows, `string` and names it does not know.
TypeNames ==
    {TextInteger, TextBool, TextFloat, TextString, <<105, 110, 116>>, <<66, 111, 111, 108>>}

TypeSeps == {<<CharSpace, CharMinus, CharGreater, CharSpace>>}

TypeLines == [lead : GrammarLeads, key : GrammarKeys, sep : TypeSeps, value : TypeNames]

InitTypes ==
    /\ lines = <<>>
    /\ source = <<>>
    /\ parser = NewParser(<<>>, "SchemaType")
    /\ results = <<>>
    /\ statements = <<>>
    /\ schema = None
    /\ evaluated = None
    /\ given = <<>>
    /\ converted = None
    /\ reader = NoReader
    /\ calls = <<>>
    /\ lexer = NoLexer
    /\ tokens = <<>>
    /\ run = NoRun

\* One more schema line is written to the source the Parser::<_, SchemaType>
\* is created over.
WriteTypeLine ==
    /\ results = <<>>
    /\ Len(lines) < MaxLines
    /\ \E l \in TypeLines :
          /\ lines' = Append(lines, l)
          /\ source' = Render(lines')
          /\ parser' = NewParser(source', "SchemaType")
    /\ UNCHANGED <<results, statements, schema, evaluated, given, converted, reader, calls, lexer, tokens, run>>

NextTypes == WriteTypeLine \/ ParseCall

SpecTypes == InitTypes /\ [][NextTypes]_vars

\* The outcome of parse() on a fresh Parser<_, Value> over the text.
ParseOf(text) == Parse(NewParser(text, "Value")).res

----------------------------------------------------------------------------
(* Value::from driven on bounded texts.                                    *)

ValueAlphabet == {49, CharZero, CharMinus, CharDot, CharLowerE, CharUpperE, 120}

\* The words of test_value_from next to their near misses.
ValueWords ==
    {TextTrue, TextFalse, <<84, 114, 117, 101>>, TextTrue \o <<CharSpace>>,
     <<116, 114, 117>>, <<70, 65, 76, 83, 69>>}

ValueTexts == SeqsUpTo(ValueAlphabet, MaxTextLen) \cup ValueWords

InitValue ==
    /\ statements = <<>>
    /\ schema = None
    /\ evaluated = None
    /\ source = <<>>
    /\ parser = NoParser
    /\ results = <<>>
    /\ lines = <<>>
    /\ given \in ValueTexts
    /\ converted = None
    /\ reader = NoReader
    /\ calls = <<>>
    /\ lexer = NoLexer
    /\ tokens = <<>>
    /\ run = NoRun

\* Value::from(text)
FromCall ==
    /\ converted = None
    /\ converted' = Some(ValueFrom(given))
    /\ UNCHANGED <<statements, schema, evaluated, source, parser, results, lines, given, reader, calls, lexer, tokens, run>>

NextValue == FromCall

SpecValue == InitValue /\ [][NextValue]_vars

----------------------------------------------------------------------------
(* The CharReader driven on its own.                                       *)

\* char::encode_utf8: the bytes of a Rust string literal's character
Utf8Char(c) ==
    IF c < 128 THEN <<c>>
    ELSE IF c < 2048 THEN <<192 + (c \div 64), 128 + (c % 64)>>
    ELSE IF c < 65536
    THEN <<224 + (c \div 4096), 128 + ((c \div 64) % 64), 128 + (c % 64)>>
    ELSE <<240 + (c \div 262144), 128 + ((c \div 4096) % 64), 128 + ((c \div 64) % 64),
           128 + (c % 64)>>

RECURSIVE Utf8Text(_)
Utf8Text(t) == IF t = <<>> THEN <<>> ELSE Utf8Char(Head(t)) \o Utf8Text(Tail(t))

\* One call on the CharReader and what it returned: res for peek, peek_back
\* and read, ok and str for consume(n).
Call(op, n, res, ok, str) == [op |-> op, n |-> n, res |-> res, ok |-> ok, str |-> str]

\* The characters of the texts the look-ahead is driven on: a letter, the
\* line break and a two-byte character.
ReaderChars == {97, CharLF, 233}

ReaderTexts == SeqsUpTo(ReaderChars, MaxReaderLen)

InitLookahead ==
    /\ source \in {Utf8Text(t) : t \in ReaderTexts}
    /\ reader = NewCharReader(source)
    /\ calls = <<>>
    /\ lexer = NoLexer
    /\ tokens = <<>>
    /\ run = NoRun
    /\ parser = NoParser
    /\ results = <<>>
    /\ lines = <<>>
    /\ statements = <<>>
    /\ schema = None
    /\ evaluated = None
    /\ given = <<>>
    /\ converted = None

\* char_reader.peek()
PeekCall ==
    /\ reader # NoReader
    /\ Len(calls) < MaxReaderCalls
    /\ \E r \in {ReaderPeek(reader)} :
          /\ reader' = r.st
          /\ calls' = Append(calls, Call("peek", 0, r.res, r.res.kind = "Ok", <<>>))
    /\ UNCHANGED <<source, parser, results, lines, statements, schema, evaluated,
                   given, converted, lexer, tokens, run>>

\* char_reader.peek_back()
PeekBackCall ==
    /\ reader # NoReader
    /\ Len(calls) < MaxReaderCalls
    /\ \E r \in {ReaderPeekBack(reader)} :
          /\ reader' = r.st
          /\ calls' = Append(calls, Call("peek_back", 0, r.res, r.res.kind = "Ok", <<>>))
    /\ UNCHANGED <<source, parser, results, lines, statements, schema, evaluated,
                   given, converted, lexer, tokens, run>>

\* char_reader.read()
ReadCall ==
    /\ reader # NoReader
    /\ Len(calls) < MaxReaderCalls
    /\ \E r \in {ReaderRead(reader)} :
          /\ reader' = r.st
          /\ calls' = Append(calls, Call("read", 0, r.res, r.res.kind = "Ok", <<>>))
    /\ UNCHANGED <<source, parser, results, lines, statements, schema, evaluated,
                   given, converted, lexer, tokens, run>>

NextLookahead == PeekCall \/ PeekBackCall \/ ReadCall

SpecLookahead == InitLookahead /\ [][NextLookahead]_vars

\* The texts consume is driven on: the first letters of `abcdef`.
Letters(k) == [i \in 1..k |-> 96 + i]

ConsumeCounts == {1, 2}

InitReader ==
    /\ source \in {Utf8Text(Letters(k)) : k \in 0..(MaxReaderLen + 1)}
    /\ reader = NewCharReader(source)
    /\ calls = <<>>
    /\ lexer = NoLexer
    /\ tokens = <<>>
    /\ run = NoRun
    /\ parser = NoParser
    /\ results = <<>>
    /\ lines = <<>>
    /\ statements = <<>>
    /\ schema = None
    /\ evaluated = None
    /\ given = <<>>
    /\ converted = None

\* char_reader.consume(n)
ConsumeCall ==
    /\ reader # NoReader
    /\ Len(calls) < MaxReaderCalls
    /\ \E n \in ConsumeCounts :
          \E r \in {ReaderConsume(reader, n)} :
             /\ reader' = r.st
             /\ calls' = Append(calls,
                                Call("consume", n,
                                     ReaderResult(IF r.ok THEN "Ok" ELSE "ConsumeError", 0, 0, 0),
                                     r.ok, r.text))
    /\ UNCHANGED <<source, parser, results, lines, statements, schema, evaluated,
                   given, converted, lexer, tokens, run>>

NextReader == PeekCall \/ PeekBackCall \/ ReadCall \/ ConsumeCall

SpecReader == InitReader /\ [][NextReader]_vars

\* The bytes of the sources the decoding is driven on: `a`, the line break,
\* lead bytes of two, three and four bytes (0xC0, 0xC3, 0xE3, 0xED, 0xF0,
\* 0xF7), a continuation byte (0xA9) and a byte of none of the patterns
\* (0xFF).
DecodeBytes == {97, CharLF, 192, 195, 227, 237, 240, 247, 169, 255}

\* The capacities of the BufReader the CharReader is created over: the one of
\* BufReader::new, and one that a source of a few bytes already exceeds.
DecodeCapacities == {DefaultCapacity, 3}

InitDecode ==
    /\ source \in SeqsUpTo(DecodeBytes, MaxDecodeLen)
    /\ reader \in {NewCharReaderOver(source, c) : c \in DecodeCapacities}
    /\ calls = <<>>
    /\ lexer = NoLexer
    /\ tokens = <<>>
    /\ run = NoRun
    /\ parser = NoParser
    /\ results = <<>>
    /\ lines = <<>>
    /\ statements = <<>>
    /\ schema = None
    /\ evaluated = None
    /\ given = <<>>
    /\ converted = None

NextDecode == ReadCall

SpecDecode == InitDecode /\ [][NextDecode]_vars

\* The Lexer driven on its own, as test_lexer does: Lexer::new over a text of
\* whitespace, line breaks, separators and identifier characters, then next()
\* and peek() in any order.
LexAlphabet == {97, CharDot, CharEqual, CharSpace, CharTab, CharCR, CharLF}

InitLexer ==
    /\ source \in SeqsUpTo(LexAlphabet, MaxLexLen)
    /\ lexer = NewLexer(source)
    /\ tokens = <<>>
    /\ run = NoRun
    /\ reader = NoReader
    /\ calls = <<>>
    /\ parser = NoParser
    /\ results = <<>>
    /\ lines = <<>>
    /\ statements = <<>>
    /\ schema = None
    /\ evaluated = None
    /\ given = <<>>
    /\ converted = None

\* lexer.next()
LexerNextCall ==
    /\ lexer # NoLexer
    /\ Len(tokens) < MaxLexCalls
    /\ \E r \in {LexerNext(lexer)} :
          /\ lexer' = r.st
          /\ tokens' = Append(tokens, [op |-> "next", res |-> r.res])
    /\ UNCHANGED <<source, reader, calls, parser, results, lines, statements, schema,
                   evaluated, given, converted, run>>

\* lexer.peek()
LexerPeekCall ==
    /\ lexer # NoLexer
    /\ Len(tokens) < MaxLexCalls
    /\ \E r \in {LexerPeek(lexer)} :
          /\ lexer' = r.st
          /\ tokens' = Append(tokens, [op |-> "peek", res |-> r.res])
    /\ UNCHANGED <<source, reader, calls, parser, results, lines, statements, schema,
                   evaluated, given, converted, run>>

NextLexer == LexerNextCall \/ LexerPeekCall

SpecLexer == InitLexer /\ [][NextLexer]_vars

\* The Lexer scanning, next() after next(), a text of marker characters (`#`,
\* `;`, `-` at and after column 1) or of arrow characters (`-`, `>`, `=`).
MarkAlphabet == {97, CharHash, CharSemicolon, CharMinus, CharSpace, CharLF}

ArrowAlphabet == {97, CharMinus, CharGreater, CharEqual, CharSpace}

ScanTexts == SeqsUpTo(MarkAlphabet, MaxMarkLen) \cup SeqsUpTo(ArrowAlphabet, MaxArrowLen)

InitScan ==
    /\ source \in ScanTexts
    /\ lexer = NewLexer(source)
    /\ tokens = <<>>
    /\ run = NoRun
    /\ reader = NoReader
    /\ calls = <<>>
    /\ parser = NoParser
    /\ results = <<>>
    /\ lines = <<>>
    /\ statements = <<>>
    /\ schema = None
    /\ evaluated = None
    /\ given = <<>>
    /\ converted = None

NextScan == LexerNextCall

SpecScan == InitScan /\ [][NextScan]_vars

\* The Lexer over bytes that need not be UTF-8 (255 is never valid, 195 169 is
\* one character, 169 alone is none), next() and peek() in any order.
PeekBytes == {97, CharSpace, CharLF, 255, 195, 169}

InitPeek ==
    /\ source \in SeqsUpTo(PeekBytes, MaxPeekLen)
    /\ lexer = NewLexer(source)
    /\ tokens = <<>>
    /\ run = NoRun
    /\ reader = NoReader
    /\ calls = <<>>
    /\ parser = NoParser
    /\ results = <<>>
    /\ lines = <<>>
    /\ statements = <<>>
    /\ schema = None
    /\ evaluated = None
    /\ given = <<>>
    /\ converted = None

SpecPeek == InitPeek /\ [][NextLexer]_vars

----------------------------------------------------------------------------
(* Parser::parse one loop iteration at a time. run.pc is the loop or call  *)
(* the parser is in, run.ps the Parser, the other fields the locals, and   *)
(* run.iterations the number of iterations taken so far.                   *)

\* parse() was called: `let mut statements = vec![]`, before the first iteration
NewRun(ps) ==
    [pc |-> "parse", ps |-> ps, statements |-> <<>>, path |-> <<>>,
     value_phase |-> FALSE, total_value |-> <<>>, result |-> None, iterations |-> 0]

\* parse() returned res
Returned(rn, res, ps) == [rn EXCEPT !.pc = "done", !.ps = ps, !.result = Some(res)]

\* parse_key or parse_value returned Err(e) to parse_statement: a SyntaxError
\* with the ignore flag set goes to the swallowing arm, another error returns
\* from parse_statement and, by `?`, from parse
Raised(rn, e, ps) ==
    IF e.kind = "SyntaxError" /\ Swallows(ps)
    THEN [rn EXCEPT !.pc = "swallow", !.ps = ps]
    ELSE Returned(rn, e, ps)

\* One iteration of the loop of parse: p is the peeked result, n what
\* self.lexer.next() then returns
IterateParse(rn, p, n) ==
    LET st1 == [rn.ps EXCEPT !.lexer = p.st]
        st2 == [rn.ps EXCEPT !.lexer = n.st]
        arm == LineStart(p.res.tok.ty)
    IN IF ~p.res.ok THEN Returned(rn, LexerError(p.res.err), st1)
       ELSE IF arm = "break" THEN Returned(rn, ParseOk(rn.statements), st1)
       ELSE IF arm = "statement" THEN [rn EXCEPT !.pc = "parse_key", !.ps = st1]
       ELSE IF arm = "ignore"
       THEN IF rn.ps.ignore
            THEN Returned(rn, SyntaxError(MsgIgnoreTwice, p.res.tok), st1)
            ELSE IF ~n.res.ok THEN Returned(rn, LexerError(n.res.err), st2)
            ELSE [rn EXCEPT !.ps = [st2 EXCEPT !.ignore = TRUE]]
       ELSE IF arm = "comment" THEN [rn EXCEPT !.pc = "read_until_line_end", !.ps = st1]
       ELSE IF arm = "skip"
       THEN IF ~n.res.ok THEN Returned(rn, LexerError(n.res.err), st2)
            ELSE [rn EXCEPT !.ps = st2]
       ELSE IF arm = "return"
       THEN IF ~n.res.ok THEN Returned(rn, LexerError(n.res.err), st2)
            ELSE [rn EXCEPT !.ps = [st2 EXCEPT !.ignore = FALSE]]
       ELSE Returned(rn, SyntaxError(MsgLineStart, p.res.tok), st1)

\* The head of parse_key: n is what the first self.lexer.next() returned
EnterParseKey(rn, n) ==
    LET st1 == [rn.ps EXCEPT !.lexer = n.st]
    IN IF ~n.res.ok THEN Raised(rn, LexerError(n.res.err), st1)
       ELSE IF n.res.tok.ty = "Ident"
       THEN [rn EXCEPT !.pc = "key_loop", !.ps = st1, !.path = <<n.res.tok.text>>,
                       !.value_phase = FALSE]
       ELSE Returned(rn, ParsePanic, st1)

\* One iteration of the loop of parse_key
IterateKey(rn, p, n) ==
    LET st1 == [rn.ps EXCEPT !.lexer = p.st]
        st2 == [rn.ps EXCEPT !.lexer = n.st]
        left == [rn EXCEPT !.pc = "parse_value", !.ps = st1]
    IN IF ~p.res.ok THEN Raised(rn, LexerError(p.res.err), st1)
       ELSE IF p.res.tok.ty = "Dot"
       THEN IF rn.value_phase THEN left ELSE [rn EXCEPT !.ps = st2]
       ELSE IF p.res.tok.ty = "Ident"
       THEN IF rn.value_phase THEN left
            ELSE [rn EXCEPT !.ps = st2, !.path = Append(@, n.res.tok.text)]
       ELSE IF p.res.tok.ty \in {"Space", "Equal"}
       THEN [rn EXCEPT !.ps = st2, !.value_phase = TRUE]
       ELSE Raised(rn, SyntaxError(MsgKey, n.res.tok), st2)

\* The head of parse_value
EnterParseValue(rn, n) ==
    LET st1 == [rn.ps EXCEPT !.lexer = n.st]
    IN IF ~n.res.ok THEN Raised(rn, LexerError(n.res.err), st1)
       ELSE IF n.res.tok.ty = "Ident"
       THEN [rn EXCEPT !.pc = "value_loop", !.ps = st1, !.total_value = n.res.tok.text]
       ELSE IF n.res.tok.ty = "Dot"
       THEN [rn EXCEPT !.pc = "value_loop", !.ps = st1, !.total_value = <<CharDot>>]
       ELSE Raised(rn, SyntaxError(MsgValueStart, n.res.tok), st1)

\* One iteration of the loop of parse_value; at the line end parse_statement
\* returns the statement and parse pushes it
IterateValue(rn, n) ==
    LET st1 == [rn.ps EXCEPT !.lexer = n.st]
        ty == n.res.tok.ty
    IN IF ~n.res.ok THEN Raised(rn, LexerError(n.res.err), st1)
       ELSE IF ty = "Space"
       THEN [rn EXCEPT !.ps = st1, !.total_value = Append(@, CharSpace)]
       ELSE IF ty = "Dot"
       THEN [rn EXCEPT !.ps = st1, !.total_value = Append(@, CharDot)]
       ELSE IF ty = "Ident"
       THEN [rn EXCEPT !.ps = st1, !.total_value = @ \o n.res.tok.text]
       ELSE IF ty \in {"Return", "EOF"}
       THEN [rn EXCEPT !.pc = "parse", !.ps = [st1 EXCEPT !.ignore = FALSE],
                       !.statements =
                          Append(@, Statement(rn.path,
                                              Convert(rn.ps.payload, Trim(rn.total_value))))]
       ELSE Raised(rn, SyntaxError(MsgAfterValue, n.res.tok), st1)

\* The swallowing arm of parse_statement: p is the peeked result
Swallowing(rn, p) ==
    IF SkipsLine(p)
    THEN [rn EXCEPT !.pc = "read_until_line_end", !.ps = [rn.ps EXCEPT !.lexer = p.st]]
    ELSE [rn EXCEPT !.pc = "parse", !.ps = Swallowed([rn.ps EXCEPT !.lexer = p.st])]

\* A read_until_line_end that stops at Return and not at EOF.
IterateLineEndReturnOnly(rn, n) ==
    LET st1 == [rn.ps EXCEPT !.lexer = n.st]
    IN IF ~n.res.ok THEN Returned(rn, LexerError(n.res.err), st1)
       ELSE IF n.res.tok.ty = "Return"
       THEN [rn EXCEPT !.pc = "parse", !.ps = [st1 EXCEPT !.ignore = FALSE]]
       ELSE [rn EXCEPT !.ps = st1]

\* One iteration of the loop of read_until_line_end, called for a comment or
\* from the swallowing arm: both go on with the next iteration of parse
IterateLineEnd(rn, n) ==
    LET st1 == [rn.ps EXCEPT !.lexer = n.st]
    IN IF ~n.res.ok THEN Returned(rn, LexerError(n.res.err), st1)
       ELSE IF n.res.tok.ty \in {"Return", "EOF"}
       THEN [rn EXCEPT !.pc = "parse", !.ps = [st1 EXCEPT !.ignore = FALSE]]
       ELSE [rn EXCEPT !.ps = st1]

\* The characters of the sources parse is stepped over.
StepAlphabet == {97, CharMinus, CharDot, CharEqual, CharSpace, CharLF, CharHash}

InitSteps ==
    /\ source = <<>>
    /\ run = NoRun
    /\ lexer = NoLexer
    /\ tokens = <<>>
    /\ reader = NoReader
    /\ calls = <<>>
    /\ parser = NoParser
    /\ results = <<>>
    /\ lines = <<>>
    /\ statements = <<>>
    /\ schema = None
    /\ evaluated = None
    /\ given = <<>>
    /\ converted = None

\* The run after one more iteration
Counted(rn) == [rn EXCEPT !.iterations = @ + 1]

\* What a step leaves alone
Stepped ==
    UNCHANGED <<source, lexer, tokens, reader, calls, parser, results, lines, statements,
                schema, evaluated, given, converted>>

\* The source is written, a character at a time, before the parser is made.
WriteSource ==
    /\ run = NoRun
    /\ Len(source) < MaxStepLen
    /\ \E c \in StepAlphabet : source' = Append(source, c)
    /\ UNCHANGED <<run, lexer, tokens, reader, calls, parser, results, lines, statements,
                   schema, evaluated, given, converted>>

\* Parser::new(source) and the call of parse()
CallParse ==
    /\ run = NoRun
    /\ run' = NewRun(NewParser(source, "Value"))
    /\ Stepped

ParseStep ==
    /\ run # NoRun /\ run.pc = "parse"
    /\ \E p \in {LexerPeek(run.ps.lexer)} :
          \E n \in {LexerNext(p.st)} : run' = Counted(IterateParse(run, p, n))
    /\ Stepped

ParseKeyStep ==
    /\ run # NoRun /\ run.pc = "parse_key"
    /\ \E n \in {LexerNext(run.ps.lexer)} : run' = Counted(EnterParseKey(run, n))
    /\ Stepped

KeyLoopStep ==
    /\ run # NoRun /\ run.pc = "key_loop"
    /\ \E p \in {LexerPeek(run.ps.lexer)} :
          \E n \in {LexerNext(p.st)} : run' = Counted(IterateKey(run, p, n))
    /\ Stepped

ParseValueStep ==
    /\ run # NoRun /\ run.pc = "parse_value"
    /\ \E n \in {LexerNext(run.ps.lexer)} : run' = Counted(EnterParseValue(run, n))
    /\ Stepped

ValueLoopStep ==
    /\ run # NoRun /\ run.pc = "value_loop"
    /\ \E n \in {LexerNext(run.ps.lexer)} : run' = Counted(IterateValue(run, n))
    /\ Stepped

SwallowStep ==
    /\ run # NoRun /\ run.pc = "swallow"
    /\ \E p \in {LexerPeek(run.ps.lexer)} : run' = Counted(Swallowing(run, p))
    /\ Stepped

LineEndStep ==
    /\ run # NoRun /\ run.pc = "read_until_line_end"
    /\ \E n \in {LexerNext(run.ps.lexer)} : run' = Counted(IterateLineEnd(run, n))
    /\ Stepped

\* An iteration of the parse() in progress
Iterate ==
    /\ run # NoRun
    /\ run.iterations < MaxIterations
    /\ \/ ParseStep
       \/ ParseKeyStep
       \/ KeyLoopStep
       \/ ParseValueStep
       \/ ValueLoopStep
       \/ SwallowStep
       \/ LineEndStep

NextSteps == WriteSource \/ CallParse \/ Iterate

SpecSteps == InitSteps /\ [][NextSteps]_vars

----------------------------------------------------------------------------
(* Properties of the parser.                                               *)

\* The lines of a text: the pieces between its line breaks.
RECURSIVE SplitLines(_)
SplitLines(t) ==
    LET i == IndexOf(t, {CharLF})
    IN IF i = 0 THEN <<t>>
       ELSE <<SubSeq(t, 1, i - 1)>> \o SplitLines(SubSeq(t, i + 1, Len(t)))

RECURSIVE JoinLines(_)
JoinLines(ls) ==
    IF ls = <<>> THEN <<>>
    ELSE IF Len(ls) = 1 THEN ls[1]
    ELSE ls[1] \o <<CharLF>> \o JoinLines(Tail(ls))

RemoveAt(seq, i) == SubSeq(seq, 1, i - 1) \o SubSeq(seq, i + 1, Len(seq))

\* The text of the first n lines, each with its line break.
RECURSIVE FirstLines(_, _)
FirstLines(ls, n) ==
    IF n = 0 THEN <<>> ELSE FirstLines(ls, n - 1) \o ls[n] \o <<CharLF>>

\* The tokens Lexer::next returns up to and including EOF (or the first error).
RECURSIVE TokensFrom(_)
TokensFrom(lx) ==
    LET r == LexerNext(lx)
    IN IF ~r.res.ok \/ r.res.tok.ty = "EOF" THEN <<r.res.tok>>
       ELSE <<r.res.tok>> \o TokensFrom(r.st)

TokensOf(text) == TokensFrom(NewLexer(text))

IsLineEnd(tok) == tok.ty \in {"Return", "EOF"}

\* The tokens of line l before its Return/EOF, and that Return/EOF token.
LineTokens(toks, l) == SelectSeq(toks, LAMBDA t : t.line = l /\ ~IsLineEnd(t))

LineEndToken(toks, l) ==
    toks[CHOOSE i \in 1..Len(toks) :
            /\ IsLineEnd(toks[i])
            /\ toks[i].line = l
            /\ \A j \in 1..(i - 1) : ~(IsLineEnd(toks[j]) /\ toks[j].line = l)]

\* The line's tokens after the Space token the parser skips at a line start.
SkipSpace(ts) == IF ts # <<>> /\ ts[1].ty = "Space" THEN Tail(ts) ELSE ts

\* The lines before line l parse without an error.
LinesBeforeOk(ls, l) == ParseOf(FirstLines(ls, l - 1)).kind = "Ok"

\* Two outcomes of parse agree: the same kind, statements and message.
SameOutcome(a, b) ==
    a.kind = b.kind /\ a.statements = b.statements /\ a.msg = b.msg

HorizontalSpace == {CharSpace, CharTab, CharCR}

\* A line with the ignore marker at column 1 whose statement fails to parse:
\* an identifier follows the marker, and the line alone yields no statement
\* and no error.
FailingIgnoredLine(line) ==
    /\ line # <<>>
    /\ line[1] = CharMinus
    /\ LET ts == SkipSpace(Tail(LineTokens(TokensOf(line), 1)))
       IN ts # <<>> /\ ts[1].ty = "Ident"
    /\ ParseOf(line) = ParseOk(<<>>)

\* C4: a line with the ignore marker whose statement fails to parse
\* contributes nothing: parse returns what it returns for the source with
\* that line removed (the following lines lose no token).
C4_FailedIgnoredLineDropped ==
    results # <<>> =>
        LET ls == SplitLines(source)
        IN \A i \in 1..Len(ls) :
              FailingIgnoredLine(ls[i]) =>
                  SameOutcome(results[1], ParseOf(JoinLines(RemoveAt(ls, i))))

\* C4 witness: the first line is a failing ignored line and parse returned the
\* statement of a following line.
C4_Witness ==
    /\ results # <<>>
    /\ LET ls == SplitLines(source)
       IN Len(ls) >= 2 /\ FailingIgnoredLine(ls[1])
    /\ results[1].kind = "Ok"
    /\ Len(results[1].statements) >= 1

\* C5: on a line that starts with the ignore marker every SyntaxError is
\* swallowed, whatever token caused it: parse never returns a SyntaxError
\* located on such a line.
C5_BestEffortSwallowsAll ==
    (results # <<>> /\ results[1].kind = "SyntaxError") =>
        LET line == SplitLines(source)[results[1].line]
        IN ~(line # <<>> /\ line[1] = CharMinus)

\* A line without the ignore marker that holds a key and no value: an
\* identifier, then identifiers and dots, then spaces and equal signs only.
KeyOnlyLine(toks, l) ==
    LET ts == SkipSpace(LineTokens(toks, l))
        sep == {i \in 1..Len(ts) : ts[i].ty \in {"Space", "Equal"}}
    IN /\ ts # <<>>
       /\ ts[1].ty = "Ident"
       /\ \A i \in 1..Len(ts) :
             IF \E j \in sep : j <= i
             THEN ts[i].ty \in {"Space", "Equal"}
             ELSE ts[i].ty \in {"Ident", "Dot"}

\* C6: outside best-effort mode, a line whose key is followed by no value
\* makes parse return the SyntaxError of parse_key located at the Return/EOF
\* token that ends the line, and no statement (of that or an earlier line).
C6_KeyWithoutValueFatal ==
    results # <<>> =>
        LET ls == SplitLines(source)
            toks == TokensOf(source)
        IN \A l \in 1..Len(ls) :
              (KeyOnlyLine(toks, l) /\ LinesBeforeOk(ls, l)) =>
                  results[1] = SyntaxError(MsgKey, LineEndToken(toks, l))

\* C6 witness: a valid line gave a statement and the next line is a key
\* without a value.
C6_Witness ==
    /\ results # <<>>
    /\ LET ls == SplitLines(source)
       IN /\ Len(ls) >= 2
          /\ ParseOf(ls[1]).kind = "Ok"
          /\ Len(ParseOf(ls[1]).statements) = 1
          /\ KeyOnlyLine(TokensOf(source), 2)
    /\ results[1].kind = "SyntaxError"

\* C7: the ignore flag does not outlive its line: when a line with the ignore
\* marker is followed by a line without one that alone is a SyntaxError, parse
\* returns a SyntaxError on that later line.
C7_IgnoreEndsAtReturn ==
    results # <<>> =>
        LET ls == SplitLines(source)
        IN \A l \in 2..Len(ls) :
              ( /\ ls[l - 1] # <<>>
                /\ ls[l - 1][1] = CharMinus
                /\ LinesBeforeOk(ls, l)
                /\ ~(ls[l] # <<>> /\ ls[l][1] = CharMinus)
                /\ ParseOf(ls[l]).kind = "SyntaxError" )
              => /\ results[1].kind = "SyntaxError"
                 /\ results[1].line = l
                 /\ results[1].msg = ParseOf(ls[l]).msg

\* C7 witness: the statement of an ignored line failed and was swallowed, and
\* the malformed next line, without a marker, was fatal.
C7_Witness ==
    /\ results # <<>>
    /\ LET ls == SplitLines(source)
       IN /\ Len(ls) = 2
          /\ FailingIgnoredLine(ls[1])
          /\ ~(ls[2] # <<>> /\ ls[2][1] = CharMinus)
          /\ ParseOf(ls[2]).kind = "SyntaxError"
    /\ results[1].kind = "SyntaxError"
    /\ results[1].line = 2

\* C8: a line that gives the ignore marker twice in a row makes parse return
\* the SyntaxError "Ignore specified more than once" located at the second
\* marker.
C8_SecondIgnoreFatal ==
    results # <<>> =>
        LET ls == SplitLines(source)
        IN \A l \in 1..Len(ls) :
              ( /\ Len(ls[l]) >= 2
                /\ ls[l][1] = CharMinus
                /\ ls[l][2] = CharMinus
                /\ LinesBeforeOk(ls, l) )
              => results[1] = SyntaxError(MsgIgnoreTwice, Token(l, 2, 2, "Ignore", <<>>))

\* C9: a line whose first token after a leading Space is a Dot or an Equal
\* makes parse return the line-start SyntaxError located at that token.
C9_LineStartFatal ==
    results # <<>> =>
        LET ls == SplitLines(source)
            toks == TokensOf(source)
        IN \A l \in 1..Len(ls) :
              LET ts == SkipSpace(LineTokens(toks, l))
              IN ( /\ ts # <<>>
                   /\ ts[1].ty \in {"Dot", "Equal"}
                   /\ LinesBeforeOk(ls, l) )
                 => results[1] = SyntaxError(MsgLineStart, ts[1])

\* C9 witness: a valid line gave a statement and the next line starts, after a
\* Space, with a Dot.
C9_Witness ==
    /\ results # <<>>
    /\ LET ls == SplitLines(source)
           ts == LineTokens(TokensOf(source), 2)
       IN /\ Len(ls) >= 2
          /\ Len(ParseOf(ls[1]).statements) = 1
          /\ Len(ts) >= 2
          /\ ts[1].ty = "Space"
          /\ ts[2].ty = "Dot"
    /\ results[1].kind = "SyntaxError"

\* A text with every run of horizontal whitespace replaced by one space.
RECURSIVE CollapseSpace(_)
CollapseSpace(t) ==
    IF t = <<>> THEN <<>>
    ELSE IF Head(t) \in HorizontalSpace
    THEN IF Len(t) >= 2 /\ t[2] \in HorizontalSpace
         THEN CollapseSpace(Tail(t))
         ELSE <<CharSpace>> \o CollapseSpace(Tail(t))
    ELSE <<Head(t)>> \o CollapseSpace(Tail(t))

\* C10: for a source of well-formed lines parse returns one Statement per
\* line, in source order, with the line's fragments as Path and the conversion
\* of the trimmed value text as payload, whatever the leading Space.
C10_WellFormedLines ==
    (results # <<>> /\ lines # <<>>) =>
        results[1] = ParseOk([i \in 1..Len(lines) |->
                                 Statement(lines[i].key, ValueFrom(Trim(lines[i].value)))])

\* The same with every run of whitespace inside the value read as one space,
\* which is what the code returns for these sources.
WellFormedLinesUpToSpaceRuns ==
    (results # <<>> /\ lines # <<>>) =>
        results[1] = ParseOk([i \in 1..Len(lines) |->
                                 Statement(lines[i].key,
                                           ValueFrom(CollapseSpace(Trim(lines[i].value))))])

\* A line whose first token is Comment: `#` or `;` at column 1.
CommentLine(line) == line # <<>> /\ line[1] \in {CharHash, CharSemicolon}

\* C11: a line that starts with a Comment token contributes no statement and
\* no SyntaxError, whatever follows on it: parse returns what it returns for
\* the source with that line removed, and no error is located on that line.
C11_CommentLineSkipped ==
    results # <<>> =>
        LET ls == SplitLines(source)
        IN \A i \in 1..Len(ls) :
              CommentLine(ls[i]) =>
                  /\ SameOutcome(results[1], ParseOf(JoinLines(RemoveAt(ls, i))))
                  /\ ~(results[1].kind = "SyntaxError" /\ results[1].line = i)

\* C11 witness: a comment line holding an Equal or a Dot stands before a line
\* whose statement parse returned.
C11_Witness ==
    /\ results # <<>>
    /\ LET ls == SplitLines(source)
       IN /\ Len(ls) = 2
          /\ CommentLine(ls[1])
          /\ \E k \in 2..Len(ls[1]) : ls[1][k] \in {CharEqual, CharDot}
    /\ results[1].kind = "Ok"
    /\ Len(results[1].statements) = 1

\* The Parser has consumed the whole input: no byte is left in the source or
\* in the reader's look-ahead, and the lexer's look-ahead holds no token
\* other than EOF.
Exhausted(ps) ==
    /\ ps.lexer.reader.src = <<>>
    /\ ps.lexer.reader.peek_buffer = <<>>
    /\ \/ ps.lexer.peeking = None
       \/ ps.lexer.peeking[1].ok /\ ps.lexer.peeking[1].tok.ty = "EOF"

\* The Parser as the first parse() call on the source leaves it.
AfterFirstParse == Parse(NewParser(source, "Value")).st

\* C12: once a parse() call has consumed the whole input, with statements or
\* with a SyntaxError raised at the end of the input, every later parse() call
\* on the same Parser returns Ok with no statement.
C12_ReparseAfterExhaustion ==
    (Len(results) >= 2 /\ Exhausted(AfterFirstParse)) =>
        \A k \in 2..Len(results) : results[k] = ParseOk(<<>>)

\* C12 witness: the first call failed on a key that the end of the input cut
\* short, and two later calls were made.
C12_Witness ==
    /\ Len(results) = 3
    /\ Exhausted(AfterFirstParse)
    /\ results[1].kind = "SyntaxError"
    /\ results[1].msg = MsgKey
    /\ results[3] = ParseOk(<<>>)

\* The lines, of the first n, that hold an Equal token (`=` or `->`).
EqualLines(toks, n) ==
    {l \in 1..n : \E i \in 1..Len(toks) : toks[i].line = l /\ toks[i].ty = "Equal"}

\* C13: a line yields a Statement only if an Equal token stands between its
\* key and its value: parse returns no more statements than the source has
\* lines with an Equal token.
C13_EqualRequired ==
    (results # <<>> /\ results[1].kind = "Ok") =>
        Len(results[1].statements)
            <= Cardinality(EqualLines(TokensOf(source), Len(SplitLines(source))))

\* C14: the text parse_value hands to the conversion is the value's source
\* text, trimmed, with its inner dots and whitespace kept character by
\* character: each statement's payload is the conversion of that text.
C14_ValueTextVerbatim ==
    ( /\ results # <<>>
      /\ results[1].kind = "Ok"
      /\ Len(results[1].statements) = Len(lines) ) =>
        \A i \in 1..Len(lines) :
            results[1].statements[i].value = ValueFrom(Trim(lines[i].value))

\* The tokens of a line's key: those before the first Space or Equal token,
\* after the ignore marker and the leading Space.
KeyTokens(ts) ==
    LET body == SkipSpace(IF ts # <<>> /\ ts[1].ty = "Ignore" THEN Tail(ts) ELSE ts)
        sep == {i \in 1..Len(body) : body[i].ty \in {"Space", "Equal"}}
    IN IF sep = {} THEN body
       ELSE SubSeq(body, 1, (CHOOSE i \in sep : \A j \in sep : i <= j) - 1)

\* The key has an empty fragment: a Dot that no Identifier follows.
EmptyFragment(key) ==
    /\ key # <<>>
    /\ key[1].ty = "Ident"
    /\ \E i \in 1..Len(key) :
          /\ key[i].ty = "Dot"
          /\ (i = Len(key) \/ key[i + 1].ty = "Dot")

\* C15: a key with an empty fragment (consecutive dots, a trailing dot) does
\* not yield a Statement: a one-line source with such a key gives none.
C15_EmptyFragmentRejected ==
    ( /\ results # <<>>
      /\ Len(SplitLines(source)) = 1
      /\ EmptyFragment(KeyTokens(LineTokens(TokensOf(source), 1))) ) =>
        results[1].statements = <<>>

\* The text is an optional single leading `-` followed only by digits, `.`,
\* `e` and `E`.
SignedNumberText(t) ==
    LET body == IF t # <<>> /\ t[1] = CharMinus THEN Tail(t) ELSE t
    IN \A i \in 1..Len(body) :
           IsDigit(body[i]) \/ body[i] \in {CharDot, CharLowerE, CharUpperE}

\* C20: Value::from(text) is a Number exactly when the text is an optional
\* single leading `-` followed only by digits, `.`, `e`/`E` and parses as a
\* double; otherwise a Boolean exactly when it is `true` or `false`; otherwise
\* the String holding the text unchanged.
C20_ValueFromClassifies ==
    converted # None =>
        IF SignedNumberText(given) /\ ParseF64(given).ok
        THEN converted[1] = ValueNumber(ParseF64(given).num)
        ELSE IF given \in {TextTrue, TextFalse}
        THEN converted[1] = ValueBoolean(given = TextTrue)
        ELSE converted[1] = ValueString(given)

\* The SchemaType a type name stands for: the three known names, String for
\* every other name.
TypeNamed(name) ==
    IF name = <<105, 110, 116, 101, 103, 101, 114>> THEN "Integer"
    ELSE IF name = <<98, 111, 111, 108>> THEN "Boolean"
    ELSE IF name = <<102, 108, 111, 97, 116>> THEN "Float"
    ELSE "String"

\* The line written with ` = ` in place of ` -> `.
DirectiveLine(l) == [l EXCEPT !.sep = <<CharSpace, CharEqual, CharSpace>>]

\* C21: parse() on a Parser<_, SchemaType> over lines `key -> typename`
\* returns Ok with one Statement per line in source order, each with the Path
\* the directive `key = typename` gets and with the payload Integer, Boolean
\* or Float exactly for `integer`, `bool`, `float` and String for every other
\* type name.
C21_SchemaLinesParsed ==
    (results # <<>> /\ lines # <<>>) =>
        /\ results[1].kind = "Ok"
        /\ Len(results[1].statements) = Len(lines)
        /\ \A i \in 1..Len(lines) :
              LET directive == ParseOf(RenderLine(DirectiveLine(lines[i])))
              IN /\ directive.kind = "Ok"
                 /\ Len(directive.statements) = 1
                 /\ results[1].statements[i].path = directive.statements[1].path
                 /\ results[1].statements[i].path = lines[i].key
                 /\ results[1].statements[i].value = TypeNamed(lines[i].value)

\* C21 witness: two schema lines were parsed, the first with a type name the
\* conversion does not know, the second with `integer` on a dotted key.
C21_Witness ==
    /\ results # <<>>
    /\ Len(lines) = 2
    /\ lines[1].value \notin {TextInteger, TextBool, TextFloat, TextString}
    /\ lines[2].value = TextInteger
    /\ Len(lines[2].key) = 2
    /\ results[1].kind = "Ok"
    /\ Len(results[1].statements) = 2

\* The text whose UTF-8 encoding the bytes are.
TextOf(bytes) == CHOOSE t \in SeqsUpTo(ReaderChars, Len(bytes)) : Utf8Text(t) = bytes

\* The index of the last line break before the i-th character, 0 for none.
LastBreak(t, i) ==
    LET breaks == {j \in 1..(i - 1) : t[j] = CharLF}
    IN IF breaks = {} THEN 0 ELSE CHOOSE j \in breaks : \A k \in breaks : k <= j

\* The (char, line, column) of the i-th character of the text.
Codepoint(t, i) ==
    ReaderResult("Ok", t[i],
                 1 + Cardinality({j \in 1..(i - 1) : t[j] = CharLF}),
                 i - LastBreak(t, i))

\* The calls up to the p-th are peek and peek_back calls, each peek_back
\* successful; the calls after it are read calls, the last of them the first
\* to return EOF.
PeeksThenReads(p) ==
    /\ p < Len(calls)
    /\ \A k \in 1..p :
          /\ calls[k].op \in {"peek", "peek_back"}
          /\ calls[k].op = "peek_back" => calls[k].ok
    /\ \A k \in (p + 1)..Len(calls) :
          /\ calls[k].op = "read"
          /\ calls[k].res.kind = "EOF" <=> k = Len(calls)

\* How many items the peek cursor is past after the first k calls: one more
\* for each successful peek, one less for each peek_back.
PeekCursor(k) ==
    Cardinality({j \in 1..k : calls[j].op = "peek" /\ calls[j].ok})
      - Cardinality({j \in 1..k : calls[j].op = "peek_back"})

\* C22: after any peek and peek_back calls in which each peek_back succeeds,
\* read calls until EOF return every codepoint of the input once, in source
\* order, as the (char, line, column) that peek reported for it.
C22_PeekKeepsReads ==
    \A p \in 0..Len(calls) :
        PeeksThenReads(p) =>
            LET t == TextOf(source)
            IN /\ Len(calls) - p - 1 = Len(t)
               /\ \A i \in 1..Len(t) : calls[p + i].res = Codepoint(t, i)
               /\ \A k \in 1..p :
                     (calls[k].op = "peek" /\ calls[k].ok)
                     => calls[k].res = Codepoint(t, PeekCursor(k - 1) + 1)

\* C22 witness: a peek, a peek_back and a peek again, then a two-character
\* text read to its EOF.
C22_Witness ==
    /\ PeeksThenReads(3)
    /\ calls[1].op = "peek" /\ calls[1].ok
    /\ calls[2].op = "peek_back"
    /\ calls[3].op = "peek" /\ calls[3].ok
    /\ Len(calls) = 6

\* The call that led to the state.
LastCall == calls[Len(calls)]

\* C23: through every peek, peek_back, read and consume call peek_offset stays
\* at most the length of peek_buffer; a peek_back succeeds exactly when one
\* more credit does not exceed the buffered items, and otherwise returns
\* PeekBackError and leaves the reader as it was.
C23_PeekOffsetWithinBuffer ==
    [][ calls' # calls =>
          /\ reader'.peek_offset <= Len(reader'.peek_buffer)
          /\ calls'[Len(calls')].op = "peek_back" =>
                /\ calls'[Len(calls')].ok
                     <=> reader.peek_offset + 1 <= Len(reader.peek_buffer)
                /\ calls'[Len(calls')].ok => reader'.peek_offset = reader.peek_offset + 1
                /\ ~calls'[Len(calls')].ok =>
                      /\ calls'[Len(calls')].res.kind = "PeekBackError"
                      /\ reader' = reader ]_vars

\* C23 witness: after a successful consume, with a credit pending for every
\* buffered item, a further peek_back returned PeekBackError.
C23_Witness ==
    /\ Len(calls) >= 2
    /\ LastCall.op = "peek_back"
    /\ LastCall.res.kind = "PeekBackError"
    /\ Len(reader.peek_buffer) >= 1
    /\ reader.peek_offset = Len(reader.peek_buffer)
    /\ \E k \in 1..Len(calls) : calls[k].op = "consume" /\ calls[k].ok

\* The reader after the first k of the calls.
RECURSIVE ReaderAfter(_)
ReaderAfter(k) ==
    IF k = 0 THEN NewCharReader(source)
    ELSE IF calls[k].op = "peek" THEN ReaderPeek(ReaderAfter(k - 1)).st
    ELSE IF calls[k].op = "peek_back" THEN ReaderPeekBack(ReaderAfter(k - 1)).st
    ELSE IF calls[k].op = "read" THEN ReaderRead(ReaderAfter(k - 1)).st
    ELSE ReaderConsume(ReaderAfter(k - 1), calls[k].n).st

\* The place in peek_buffer of the item the successful k-th call, a
\* peek_back, un-read, and the item itself.
UnreadIndex(k) == Len(ReaderAfter(k).peek_buffer) - ReaderAfter(k).peek_offset + 1

Unread(k) == ReaderAfter(k).peek_buffer[UnreadIndex(k)]

\* How many buffered items the k-th call, a read or a consume, removed.
Removed(k) == IF calls[k].op = "read" THEN 1 ELSE calls[k].n

RECURSIVE RemovedBetween(_, _)
RemovedBetween(i, j) ==
    IF j <= i + 1 THEN 0 ELSE Removed(j - 1) + RemovedBetween(i, j - 1)

\* C24: after a successful peek_back the next peek returns the item that was
\* un-read, also when read and consume calls in between removed buffered
\* items before that item and not the item itself.
C24_PeekAfterPeekBack ==
    \A i \in 1..Len(calls) : \A j \in (i + 1)..Len(calls) :
        ( /\ calls[i].op = "peek_back" /\ calls[i].ok
          /\ calls[j].op = "peek"
          /\ \A k \in (i + 1)..(j - 1) : calls[k].op \in {"read", "consume"} /\ calls[k].ok
          /\ RemovedBetween(i, j) < UnreadIndex(i) )
        => calls[j].res = Unread(i)

\* C25: consume(n) with at least n buffered items returns the characters of
\* the first n buffered items in buffer order and removes exactly those items;
\* with fewer than n buffered items it returns ConsumeError.
C25_ConsumeTakesFirstItems ==
    [][ (calls' # calls /\ calls'[Len(calls')].op = "consume") =>
          LET n == calls'[Len(calls')].n
              buffer == reader.peek_buffer
          IN IF Len(buffer) >= n
             THEN /\ calls'[Len(calls')].ok
                  /\ calls'[Len(calls')].str = [k \in 1..n |-> buffer[k].c]
                  /\ reader'.peek_buffer = SubSeq(buffer, n + 1, Len(buffer))
                  /\ reader'.src = reader.src
             ELSE /\ ~calls'[Len(calls')].ok
                  /\ calls'[Len(calls')].res.kind = "ConsumeError" ]_vars

\* C25 witness: consume(2) returned two characters and left a buffered item;
\* a later consume(2) on that one item returned ConsumeError.
C25_Witness ==
    /\ Len(calls) >= 2
    /\ LastCall.op = "consume" /\ LastCall.n = 2 /\ ~LastCall.ok
    /\ calls[Len(calls) - 1].op = "consume"
    /\ calls[Len(calls) - 1].n = 2
    /\ calls[Len(calls) - 1].ok
    /\ Len(calls[Len(calls) - 1].str) = 2

\* The Unicode scalar values whose UTF-8 encoding is written with the bytes
\* of the decoding sources: a, the line break, U+00E9, U+3A69 and U+29A69.
DecodeChars == {97, CharLF, 233, 14953, 170601}

\* The encoding of the character is how the bytes begin.
BeginsWith(bytes, c) ==
    /\ Len(Utf8Char(c)) <= Len(bytes)
    /\ SubSeq(bytes, 1, Len(Utf8Char(c))) = Utf8Char(c)

\* The bytes are the UTF-8 encoding of a text; the text they encode.
RECURSIVE ValidUtf8(_)
ValidUtf8(bytes) ==
    \/ bytes = <<>>
    \/ \E c \in DecodeChars :
          /\ BeginsWith(bytes, c)
          /\ ValidUtf8(SubSeq(bytes, Len(Utf8Char(c)) + 1, Len(bytes)))

RECURSIVE DecodedText(_)
DecodedText(bytes) ==
    IF bytes = <<>> THEN <<>>
    ELSE LET c == CHOOSE c \in DecodeChars : BeginsWith(bytes, c)
         IN <<c>> \o DecodedText(SubSeq(bytes, Len(Utf8Char(c)) + 1, Len(bytes)))

\* C26: on a valid UTF-8 byte sequence successive reads return the scalar
\* values whose encoding the input is, one per read and in order, so that
\* encoding the returned characters gives the bytes again; the read after the
\* last character returns EOF.
C26_DecodesValidUtf8 ==
    ValidUtf8(source) =>
        LET t == DecodedText(source)
        IN \A i \in 1..Len(calls) :
              IF i <= Len(t)
              THEN /\ calls[i].res.kind = "Ok"
                   /\ calls[i].res.c = t[i]
                   /\ Utf8Text([k \in 1..i |-> calls[k].res.c])
                        = SubSeq(source, 1, Len(Utf8Text(SubSeq(t, 1, i))))
              ELSE calls[i].res.kind = "EOF"

\* The calls before the i-th that returned a line break.
BreaksBefore(i) == {j \in 1..(i - 1) : calls[j].ok /\ calls[j].res.c = CharLF}

\* The calls before the i-th and after the last line break before it in which
\* a codepoint was decoded: one that was returned, or one that was assembled
\* and rejected as InvalidCodepoint.
DecodedOnLineBefore(i) ==
    {j \in 1..(i - 1) :
        /\ calls[j].res.kind \in {"Ok", "InvalidCodepoint"}
        /\ \A k \in BreaksBefore(i) : k < j}

Continuations(lead) ==
    IF lead < 128 THEN 0
    ELSE IF lead >= 192 /\ lead < 224 THEN 1
    ELSE IF lead >= 224 /\ lead < 240 THEN 2
    ELSE IF lead >= 240 /\ lead < 248 THEN 3
    ELSE -1

\* The byte has the pattern 10xxxxxx.
IsContinuation(byte) == byte >= 128 /\ byte < 192

\* The value the payload bits of a sequence of 1 + n bytes assemble to.
RECURSIVE Payload(_, _)
Payload(bytes, n) ==
    IF n = 0
    THEN IF bytes[1] < 128 THEN bytes[1]
         ELSE IF bytes[1] < 224 THEN bytes[1] - 192
         ELSE IF bytes[1] < 240 THEN bytes[1] - 224
         ELSE bytes[1] - 240
    ELSE Payload(bytes, n - 1) * 64 + (bytes[n + 1] - 128)

\* Neither a surrogate nor above 0x10FFFF.
IsUnicodeScalar(v) == (v < 55296 \/ v > 57343) /\ v <= 1114111

\* The calls after the last returned line break that returned a Codepoint.
ReturnedOnLine == {j \in DecodedOnLineBefore(Len(calls) + 1) : calls[j].ok}

\* C28: a read fails with InvalidUTF8 and the offending byte when the lead
\* byte has none of the four lead patterns or a continuation byte has not the
\* pattern 10xxxxxx, reporting the line and the column of the last Codepoint
\* returned on it (0 for none); it fails with InvalidCodepoint and the
\* assembled value when the sequence is well formed and the value is no
\* Unicode scalar value, reporting the column of the failing character.
C28_DecodingErrors ==
    [][ (calls' # calls /\ reader.src # <<>>) =>
          LET bytes == reader.src
              n == Continuations(bytes[1])
              res == calls'[Len(calls')].res
              line == 1 + Cardinality(BreaksBefore(Len(calls) + 1))
              column == Cardinality(ReturnedOnLine)
          IN /\ n = -1 => res = ReaderResult("InvalidUTF8", bytes[1], line, column)
             /\ \A k \in 1..n :
                   ( /\ k + 1 <= Len(bytes)
                     /\ ~IsContinuation(bytes[k + 1])
                     /\ \A j \in 1..(k - 1) : IsContinuation(bytes[j + 1]) )
                   => res = ReaderResult("InvalidUTF8", bytes[k + 1], line, column)
             /\ ( /\ n >= 0
                  /\ n + 1 <= Len(bytes)
                  /\ \A j \in 1..n : IsContinuation(bytes[j + 1])
                  /\ ~IsUnicodeScalar(Payload(bytes, n)) )
                => res = ReaderResult("InvalidCodepoint", Payload(bytes, n), line, column + 1)
      ]_vars

\* The EOF(line, column) at the end of the text: the line after the last line
\* break, the number of characters on it.
EndOf(t) ==
    ReaderResult("EOF", 0,
                 1 + Cardinality({j \in 1..Len(t) : t[j] = CharLF}),
                 Len(t) - LastBreak(t, Len(t) + 1))

\* C29 as stated: at the end of the input read and peek return EOF(line,
\* column) and leave line, column and buffer as they are, and either returns
\* EOF only when the input is exhausted and every buffered peeked item has
\* been delivered by read.
C29_EOFAfterBufferDelivered ==
    [][ (calls' # calls /\ calls'[Len(calls')].op \in {"read", "peek"}) =>
          /\ (reader.src = <<>> /\ reader.peek_buffer = <<>>) =>
                /\ calls'[Len(calls')].res = EndOf(TextOf(source))
                /\ reader' = reader
          /\ calls'[Len(calls')].res.kind = "EOF" =>
                reader.src = <<>> /\ reader.peek_buffer = <<>> ]_vars

\* C29 amended: with the input exhausted, read returns EOF(line, column) once
\* every buffered item has been delivered and only then, peek returns it once
\* no peek-back credit is pending and only then, also while peeked items are
\* buffered; the call returns no Codepoint and no decoding error and leaves
\* line, column and buffer as they are, however often it is repeated.
C29_EOFAtEndOfInput ==
    [][ calls' # calls =>
          LET ended == IF calls'[Len(calls')].op = "read"
                       THEN reader.src = <<>> /\ reader.peek_buffer = <<>>
                       ELSE reader.src = <<>> /\ reader.peek_offset = 0
          IN calls'[Len(calls')].op \in {"read", "peek"} =>
                /\ ended => /\ calls'[Len(calls')].res = EndOf(TextOf(source))
                            /\ reader' = reader
                /\ calls'[Len(calls')].res.kind = "EOF" => ended ]_vars

\* C29 witness: a peek returned EOF with a peeked item still buffered, and
\* the peek repeated returned EOF again.
C29_Witness ==
    /\ Len(calls) >= 3
    /\ LastCall.op = "peek" /\ LastCall.res.kind = "EOF"
    /\ calls[Len(calls) - 1].op = "peek" /\ calls[Len(calls) - 1].res.kind = "EOF"
    /\ Len(reader.peek_buffer) >= 1

----------------------------------------------------------------------------
(* Properties of the lexer.                                                *)

\* The token stream so far: the tokens next() returned, in order.
Stream == SelectSeq(tokens, LAMBDA t : t.op = "next")

\* The stream is complete once next() returned the EOF token.
StreamComplete ==
    \E k \in 1..Len(Stream) : Stream[k].res.ok /\ Stream[k].res.tok.ty = "EOF"

\* The tokens of the stream that cover column c of line l.
Covering(l, c) ==
    {k \in 1..Len(Stream) :
        /\ Stream[k].res.ok
        /\ Stream[k].res.tok.ty # "EOF"
        /\ Stream[k].res.tok.line = l
        /\ Stream[k].res.tok.start <= c
        /\ c <= Stream[k].res.tok.end}

\* The Space token tok is one maximal run of whitespace of the line text.
MaximalRun(tok, line) ==
    /\ tok.start <= tok.end /\ tok.end <= Len(line)
    /\ \A c \in tok.start..tok.end : line[c] \in HorizontalSpace
    /\ tok.start > 1 => line[tok.start - 1] \notin HorizontalSpace
    /\ tok.end < Len(line) => line[tok.end + 1] \notin HorizontalSpace

\* The token type of a character that is a token of its own.
SingleType(c) ==
    IF c = CharLF THEN "Return" ELSE IF c = CharDot THEN "Dot" ELSE "Equal"

\* C30: every Space token next() returns is one maximal run of space, tab and
\* carriage return of its line, two Space tokens of one line never follow each
\* other, and once the stream is complete every whitespace character lies in
\* exactly one Space token while every line break, `.` and `=` is exactly one
\* Return, Dot or Equal token of its own column.
C30_SpaceRunsAndSeparators ==
    LET ls == SplitLines(source)
        at(l, c) == IF c = Len(ls[l]) + 1 THEN CharLF ELSE ls[l][c]
        width(l) == IF l < Len(ls) THEN Len(ls[l]) + 1 ELSE Len(ls[l])
    IN /\ \A k \in 1..Len(Stream) :
             /\ Stream[k].res.ok
             /\ Stream[k].res.tok.ty = "Space" =>
                   MaximalRun(Stream[k].res.tok, ls[Stream[k].res.tok.line])
             /\ (/\ k > 1
                 /\ Stream[k].res.tok.ty = "Space"
                 /\ Stream[k - 1].res.tok.ty = "Space") =>
                   Stream[k].res.tok.line # Stream[k - 1].res.tok.line
       /\ StreamComplete =>
             \A l \in 1..Len(ls) : \A c \in 1..width(l) :
                /\ at(l, c) \in HorizontalSpace =>
                      /\ Cardinality(Covering(l, c)) = 1
                      /\ \A k \in Covering(l, c) : Stream[k].res.tok.ty = "Space"
                /\ at(l, c) \in {CharLF, CharDot, CharEqual} =>
                      /\ Cardinality(Covering(l, c)) = 1
                      /\ \A k \in Covering(l, c) :
                            /\ Stream[k].res.tok.ty = SingleType(at(l, c))
                            /\ Stream[k].res.tok.start = c
                            /\ Stream[k].res.tok.end = c

\* C30 witness: a run of a tab and a carriage return came out as one Space
\* token of columns 1 to 2, followed by the Equal token of column 3.
C30_Witness ==
    /\ StreamComplete
    /\ source = <<CharTab, CharCR, CharEqual>>
    /\ Len(Stream) >= 2
    /\ Stream[1].res.tok.ty = "Space"
    /\ Stream[1].res.tok.start = 1 /\ Stream[1].res.tok.end = 2
    /\ Stream[2].res.tok.ty = "Equal"
    /\ Stream[2].res.tok.start = 3

\* The text a token covers: its columns of its line, the line break for the
\* column after the line's last.
Covered(tok) ==
    LET line == SplitLines(source)[tok.line]
    IN [c \in 1..(tok.end - tok.start + 1) |->
          IF tok.start + c - 1 = Len(line) + 1 THEN CharLF ELSE line[tok.start + c - 1]]

Types(toks) == [k \in 1..Len(toks) |-> toks[k].ty]

\* The tokens before the end of the input.
Body(toks) == SelectSeq(toks, LAMBDA t : t.ty # "EOF")

\* The tokens of the stream.
StreamTokens == [k \in 1..Len(Stream) |-> Stream[k].res.tok]

\* The text the stream stands for with `=` written for every `->` token.
RECURSIVE WithEqual(_)
WithEqual(toks) ==
    IF toks = <<>> THEN <<>>
    ELSE (IF Head(toks).ty = "EOF" THEN <<>>
          ELSE IF Head(toks).ty = "Equal" THEN <<CharEqual>>
          ELSE Covered(Head(toks))) \o WithEqual(Tail(toks))

\* C32: an identifier text that is exactly `->` comes out as the Equal token of
\* its two columns: no Identifier is or begins with `->`, every Equal token
\* covers `=` or `->`, an `->` after other identifier characters stays inside
\* the one Identifier, and the text with `=` written for each `->` token has
\* the same sequence of token types.
C32_ArrowIsEqual ==
    /\ \A k \in 1..Len(Stream) :
          /\ Stream[k].res.ok
          /\ Stream[k].res.tok.ty = "Ident" =>
                /\ Stream[k].res.tok.text = Covered(Stream[k].res.tok)
                /\ ~(/\ Len(Stream[k].res.tok.text) >= 2
                     /\ SubSeq(Stream[k].res.tok.text, 1, 2) = ArrowText)
                /\ \A c \in 1..Len(Stream[k].res.tok.text) :
                      Stream[k].res.tok.text[c] \notin {CharSpace, CharEqual, CharLF}
          /\ Stream[k].res.tok.ty = "Equal" =>
                Covered(Stream[k].res.tok) \in {<<CharEqual>>, ArrowText}
    /\ StreamComplete =>
          Types(Body(TokensOf(WithEqual(StreamTokens)))) = Types(Body(StreamTokens))

\* C32 witness: `a ->a` came out as Identifier, Space, the Equal token of
\* columns 3 to 4 and Identifier, the token types of `a =a`.
C32_Witness ==
    /\ StreamComplete
    /\ source = <<97, CharSpace, CharMinus, CharGreater, 97>>
    /\ Types(StreamTokens) = <<"Ident", "Space", "Equal", "Ident", "EOF">>
    /\ Stream[3].res.tok.start = 3
    /\ Stream[3].res.tok.end = 4
    /\ Types(TokensOf(<<97, CharSpace, CharEqual, 97>>)) =
          <<"Ident", "Space", "Equal", "Ident", "EOF">>

\* The EOF token of the text: at the final line and column.
EOFToken == Token(EndOf(source).line, EndOf(source).pos, EndOf(source).pos, "EOF", <<>>)

\* The reader has nothing left to return.
AtEnd(rd) == rd.src = <<>> /\ rd.peek_buffer = <<>>

\* C33: a next() or peek() made at the end of the input (no cached token, the
\* reader with nothing left) returns Ok with the EOF token of the final line
\* and column, start = end; no call returns an error, the EOF token is returned
\* at the end of the input only, and after it every call returns it again.
C33_EOFToken ==
    [][ tokens' # tokens =>
          /\ tokens'[Len(tokens')].res.ok
          /\ (lexer.peeking = None /\ AtEnd(lexer.reader)) =>
                tokens'[Len(tokens')].res.tok = EOFToken
          /\ tokens'[Len(tokens')].res.tok.ty = "EOF" =>
                /\ tokens'[Len(tokens')].res.tok = EOFToken
                /\ AtEnd(lexer.reader)
                /\ lexer.peeking # None => lexer.peeking[1] = LexOk(EOFToken)
          /\ (tokens # <<>> /\ tokens[Len(tokens)].res.tok.ty = "EOF") =>
                tokens'[Len(tokens')].res = LexOk(EOFToken) ]_vars

\* C33 witness: after `a` and a line break, next() returned the EOF token of
\* line 2, column 0, and a peek() and a next() after it returned it again.
C33_Witness ==
    /\ source = <<97, CharLF>>
    /\ Len(tokens) = 5
    /\ tokens[3].op = "next" /\ tokens[3].res = LexOk(Token(2, 0, 0, "EOF", <<>>))
    /\ tokens[4].op = "peek" /\ tokens[4].res = tokens[3].res
    /\ tokens[5].op = "next" /\ tokens[5].res = tokens[3].res

\* The results of n next() calls on a lexer, with no peek() between them.
RECURSIVE NextResults(_, _)
NextResults(lx, n) ==
    IF n = 0 THEN <<>>
    ELSE <<LexerNext(lx).res>> \o NextResults(LexerNext(lx).st, n - 1)

\* C34: the results next() returned are the results it returns with no peek()
\* calls made, and the call after a peek(), a next() or another peek(), returns
\* what that peek() returned, token or error.
C34_PeekDoesNotConsume ==
    /\ [k \in 1..Len(Stream) |-> Stream[k].res] =
          NextResults(NewLexer(source), Len(Stream))
    /\ \A k \in 1..(Len(tokens) - 1) :
          tokens[k].op = "peek" => tokens[k + 1].res = tokens[k].res

\* C34 witness: on an invalid byte and `a`, two peek() calls and the next()
\* after them returned the same error, and the next() after that the
\* Identifier.
C34_Witness ==
    /\ source = <<255, 97>>
    /\ Len(tokens) = 4
    /\ tokens[1].op = "peek" /\ ~tokens[1].res.ok
    /\ tokens[2].op = "peek" /\ tokens[2].res = tokens[1].res
    /\ tokens[3].op = "next" /\ tokens[3].res = tokens[1].res
    /\ tokens[4].op = "next" /\ tokens[4].res.ok /\ tokens[4].res.tok.ty = "Ident"

----------------------------------------------------------------------------
(* Termination of Parser::parse.                                           *)

\* The tokens the lexer has yet to return, the cached one and the EOF included.
Remaining(lx) == Len(TokensFrom(lx))

\* The stepped parse() agrees with Parse.
SteppedAsParse ==
    (run # NoRun /\ run.pc = "done") =>
       /\ run.result = Some(Parse(NewParser(source, "Value")).res)
       /\ run.ps = Parse(NewParser(source, "Value")).st

\* The iterations parse() may take on a text: two for each of its tokens, the
\* EOF included, and the one that returns.
IterationLimit == 2 * Remaining(NewLexer(source)) + 1

\* C35: parse() returns, with Ok or Err, within IterationLimit iterations of
\* its loops; an iteration that stays in its loop has consumed a token, no
\* iteration gives one back, and Ok is returned only with the EOF token as the
\* next token.
C35_ParseTerminates ==
    [][ run' # NoRun =>
          /\ run'.iterations <= IterationLimit
          /\ run'.pc # "done" => run'.iterations < IterationLimit
          /\ run # NoRun =>
                /\ Remaining(run'.ps.lexer) <= Remaining(run.ps.lexer)
                /\ run'.pc = run.pc =>
                      Remaining(run'.ps.lexer) < Remaining(run.ps.lexer)
          /\ run'.pc = "done" =>
                /\ run'.result[1].kind \in {"Ok", "SyntaxError", "LexerError"}
                /\ run'.result[1].kind = "Ok" =>
                      /\ LexerPeek(run'.ps.lexer).res.ok
                      /\ LexerPeek(run'.ps.lexer).res.tok.ty = "EOF" ]_vars

\* C35 witness: parse() returned after a comment line and a key without a
\* value, the loops of parse, read_until_line_end and parse_key run.
C35_Witness ==
    /\ run # NoRun
    /\ run.pc = "done"
    /\ source = <<CharHash, CharLF, 97, CharEqual>>
    /\ run.result[1].kind = "SyntaxError"
    /\ run.iterations = 7

----------------------------------------------------------------------------
(* The layers below the lexer's caller.                                    *)

\* C36: between the calls of next() and peek() the CharReader holds at most
\* one peeked codepoint, the one that ended the last token, and no peek-back
\* credit; the Lexer's cache is one token or none, and with the input at its
\* end nothing is held back in the reader.
C36_NoLayerRunsAhead ==
    /\ Len(lexer.reader.peek_buffer) <= 1
    /\ lexer.reader.peek_offset = 0
    /\ Len(lexer.peeking) <= 1
    /\ \A c \in 1..Len(lexer.reader.peek_buffer) :
          /\ lexer.reader.peek_buffer[c].kind = "Ok"
          /\ tokens # <<>>
          /\ tokens[Len(tokens)].res.ok
          /\ tokens[Len(tokens)].res.tok.ty \in {"Space", "Ident"}
          /\ lexer.reader.peek_buffer[c].line = tokens[Len(tokens)].res.tok.line
          /\ lexer.reader.peek_buffer[c].pos = tokens[Len(tokens)].res.tok.end + 1

\* C36 witness: a peek() returned the Identifier `a`; the token is cached and
\* the space that ended it is the one codepoint the reader holds.
C36_Witness ==
    /\ source = <<97, CharSpace, 97>>
    /\ Len(tokens) = 1
    /\ tokens[1].op = "peek"
    /\ lexer.peeking = Some(tokens[1].res)
    /\ Len(lexer.reader.peek_buffer) = 1
    /\ lexer.reader.peek_buffer[1].c = CharSpace
    /\ lexer.reader.src = <<97>>

----------------------------------------------------------------------------
(* The tokens and the input.                                               *)

\* The text the tokens before the EOF token cover, in order.
RECURSIVE Spelled(_)
Spelled(toks) ==
    IF toks = <<>> THEN <<>> ELSE Covered(Head(toks)) \o Spelled(Tail(toks))

\* Token k of the stream is the first of its line.
FirstOfLine(k) ==
    k = 1 \/ Stream[k - 1].res.tok.line # Stream[k].res.tok.line

\* Token k of the stream lies where the tiling puts it: on line 1 or on the
\* line of the token before it, after a Return on the next line, from column 1
\* or from the column after the end of the token before it.
Tiled(k) ==
    /\ Stream[k].res.tok.start <= Stream[k].res.tok.end
    /\ IF k = 1 THEN Stream[k].res.tok.line = 1
       ELSE Stream[k].res.tok.line =
               Stream[k - 1].res.tok.line +
                  (IF Stream[k - 1].res.tok.ty = "Return" THEN 1 ELSE 0)
    /\ IF FirstOfLine(k) THEN Stream[k].res.tok.start = 1
       ELSE Stream[k].res.tok.start = Stream[k - 1].res.tok.end + 1

\* C37 as stated: every token next() returns, the EOF token included, starts
\* at column 1 when it is the first of its line and at the column after the end
\* of the token before it otherwise, with start <= end, and the texts of the
\* tokens in order are the input.
C37_TokensTileInput ==
    /\ \A k \in 1..Len(Stream) : Stream[k].res.ok /\ Tiled(k)
    /\ StreamComplete => Spelled(Body(StreamTokens)) = source

\* C37 amended: the tokens before the EOF token tile the input; the EOF token
\* has start = end = the end column of the last token of its line, 0 when the
\* line has none, and every next() after it returns it again.
C37_TokensBeforeEOFTileInput ==
    /\ \A k \in 1..Len(Stream) :
          /\ Stream[k].res.ok
          /\ Stream[k].res.tok.ty # "EOF" => Tiled(k)
          /\ Stream[k].res.tok.ty = "Ident" =>
                Stream[k].res.tok.text = Covered(Stream[k].res.tok)
          /\ Stream[k].res.tok.ty = "EOF" =>
                /\ Stream[k].res.tok.start = Stream[k].res.tok.end
                /\ IF k = 1 THEN Stream[k].res.tok.line = 1 /\ Stream[k].res.tok.end = 0
                   ELSE IF Stream[k - 1].res.tok.ty = "Return"
                   THEN /\ Stream[k].res.tok.line = Stream[k - 1].res.tok.line + 1
                        /\ Stream[k].res.tok.end = 0
                   ELSE /\ Stream[k].res.tok.line = Stream[k - 1].res.tok.line
                        /\ Stream[k].res.tok.end = Stream[k - 1].res.tok.end
    /\ StreamComplete => Spelled(Body(StreamTokens)) = source

\* C37 witness: `#a`, a line break and `a` came out as Comment 1..=1,
\* Identifier 2..=2 and Return 3..=3 of line 1, Identifier 1..=1 of line 2 and
\* the EOF token at line 2, column 1.
C37_Witness ==
    /\ source = <<CharHash, 97, CharLF, 97>>
    /\ Len(Stream) = 5
    /\ Types(StreamTokens) = <<"Comment", "Ident", "Return", "Ident", "EOF">>
    /\ Stream[3].res.tok.start = 3
    /\ Stream[4].res.tok.line = 2 /\ Stream[4].res.tok.start = 1
    /\ Stream[5].res.tok.line = 2 /\ Stream[5].res.tok.start = 1

----------------------------------------------------------------------------
(* Failures of the reader.                                                 *)

\* C38: a consume(n) that returns ConsumeError leaves the look-ahead buffer
\* and the peek-back credit as they were.
C38_FailedConsumeKeepsBuffer ==
    [][ (/\ calls' # calls
         /\ calls'[Len(calls')].op = "consume"
         /\ ~calls'[Len(calls')].ok) =>
           /\ reader'.peek_buffer = reader.peek_buffer
           /\ reader'.peek_offset = reader.peek_offset ]_vars

\* The results of n read() calls on a reader.
RECURSIVE ReadResults(_, _)
ReadResults(rd, n) ==
    IF n = 0 THEN <<>>
    ELSE <<ReaderRead(rd).res>> \o ReadResults(ReaderRead(rd).st, n - 1)

\* C39: on valid UTF-8 the results of read() do not depend on how the byte
\* source hands out its bytes: they are the results of a reader whose source
\* delivers every byte asked for, Codepoints up to the EOF.
C39_DecodingIgnoresChunks ==
    ValidUtf8(source) =>
       /\ [k \in 1..Len(calls) |-> calls[k].res] =
             ReadResults(NewCharReader(source), Len(calls))
       /\ \A k \in 1..Len(calls) : calls[k].res.kind \in {"Ok", "EOF"}

\* The bytes a step of the reader took from its source.
Taken == SubSeq(reader.src, 1, Len(reader.src) - Len(reader'.src))

\* C40: a read() that returns a Codepoint has consumed the shortest-form
\* UTF-8 encoding of the character it returns: encoding the character gives
\* exactly the bytes the read took from the source.
C40_ShortestFormOnly ==
    [][ (/\ calls' # calls
         /\ calls'[Len(calls')].op = "read"
         /\ calls'[Len(calls')].ok) =>
           Utf8Char(calls'[Len(calls')].res.c) = Taken ]_vars

====
